---- MODULE Spec2Model ----
(***************************************************************************)
(* Model of torch/export/_draft_export.py: the capture scope               *)
(* (CaptureStructuredTrace), the orchestrator draft_export with its single *)
(* refined retry, the classifier / deduplicator loop and the report        *)
(* aggregate (DraftExportReport).                                          *)
(***************************************************************************)
EXTENDS Integers, Sequences, FiniteSets, TLC

\* ------------------------------------------------------------------ bounds

\* Largest number of events the capture handler stores in one run.
MaxLogs == 3

\* ------------------------------------------------------------ FailureType

MISSING_FAKE_KERNEL == 1
DATA_DEPENDENT_ERROR == 2
CONSTRAINT_VIOLATION_ERROR == 3
MISMATCHED_FAKE_KERNEL == 4

\* Python's None.
None == "None"

\* ------------------------------------------------------- filenames, stacks

\* A frame's filename is an interned id (an int) until filter_stack rewrites
\* it with str(); IntName / StrName keep the two Python types apart.
IntName(n) == [kind |-> "int", id |-> n]
StrName(n) == [kind |-> "str", id |-> n]

\* str(s["filename"]): an int becomes its decimal text, a str is unchanged.
Str(f) == [kind |-> "str", id |-> f.id]

\* torch._logging.structured.INTERN_TABLE: real path -> interned id.
INTERN_TABLE ==
    [p \in {"/home/user/model.py", "/site/torch/nn/functional.py",
            "/home/user/util.py"} |->
        CASE p = "/home/user/model.py" -> 1
          [] p = "/site/torch/nn/functional.py" -> 2
          [] OTHER -> 3]

\* str_to_filename = {str(v): k for (k, v) in INTERN_TABLE.items()}
str_to_filename ==
    [f \in {StrName(INTERN_TABLE[p]) : p \in DOMAIN INTERN_TABLE} |->
        CHOOSE p \in DOMAIN INTERN_TABLE : INTERN_TABLE[p] = f.id]

\* torch_filepath in path, torch_filepath being the directory of the torch
\* package followed by the path separator.
TorchPathIn(path) == path \in {"/site/torch/nn/functional.py"}

Frame(id, line, name) == [filename |-> IntName(id), line |-> line, name |-> name]

\* Python's stack[a:b] on a list (0-based, negative indices count from the end,
\* out-of-range indices are clipped).
PyIndex(i, n) == IF i < 0 THEN (IF i + n < 0 THEN 0 ELSE i + n)
                 ELSE (IF i > n THEN n ELSE i)

PySlice(s, a, b) ==
    LET lo == PyIndex(a, Len(s))
        hi == PyIndex(b, Len(s))
    IN IF lo < hi THEN SubSeq(s, lo + 1, hi) ELSE <<>>

\* The loop of filter_stack from position i of reversed(stack) on; every frame
\* the loop visits has its filename rewritten by str() in place.
RECURSIVE FilterFrom(_, _)
FilterFrom(stack, i) ==
    LET n == Len(stack) IN
    IF i >= n THEN PySlice(stack, 0 - 3, n)
    ELSE LET st == [stack EXCEPT ![n - i].filename = Str(@)]
             s == st[n - i]
         IN IF s.filename \notin DOMAIN str_to_filename
            THEN FilterFrom(st, i + 1)
            ELSE IF ~TorchPathIn(str_to_filename[s.filename])
                 THEN PySlice(st, n - i - 3, n - i)
                 ELSE FilterFrom(st, i + 1)

filter_stack(stack) == FilterFrom(stack, 0)

\* A key that also holds the frame's function name.
hash_stack_named(stack) ==
    [i \in 1..Len(stack) |-> <<stack[i].line, stack[i].filename.id, stack[i].name>>]

\* ";".join(f'line: {s["line"]} filename: {s["filename"]}' ...): the text of a
\* stack is determined by the (line, filename text) pairs in order; an int id
\* and its str() print the same text.
hash_stack(stack) == [i \in 1..Len(stack) |-> <<stack[i].line, stack[i].filename.id>>]

\* ----------------------------------------------------------------- events

\* Stacks the instrumented run reports (outermost frame first).
StackA == <<Frame(1, 5, "forward"), Frame(2, 10, "linear")>>
StackB == <<Frame(1, 5, "helper")>>
StackC == <<Frame(3, 7, "util"), Frame(2, 11, "relu")>>

Stacks == {StackA, StackB, StackC}

PropagateRealTensors ==
    {[expr |-> "u0 > 0", result |-> "True", stack |-> StackA],
     [expr |-> "u1 == 1", result |-> "False", stack |-> StackB],
     [expr |-> "u0 > 0", result |-> "True", stack |-> StackC]}

GuardAdded ==
    {[expr |-> "s0 == 3", symbol_to_sources |-> sts, stack |-> StackA] :
        sts \in {<<>>, <<"L['x'].size()[0]">>}}

Ops == {"mylib::foo", "mylib::bar"}

MissingFakeKernel == {[op |-> o] : o \in Ops}

MismatchedFakeKernel ==
    {[op |-> "mylib::foo", reason |-> r] : r \in {"dtype", "shape"}}

\* The keys draft_export passes to CaptureStructuredTrace.
specific_log_keys ==
    <<"propagate_real_tensors", "guard_added", "missing_fake_kernel",
      "mismatched_fake_kernel">>

\* record.metadata of the records the trace logger hands to its handlers: a
\* mapping from key to payload.
Metadata ==
    {"propagate_real_tensors" :> c : c \in PropagateRealTensors}
        \cup {"guard_added" :> c : c \in GuardAdded}
        \cup {"missing_fake_kernel" :> c : c \in MissingFakeKernel}
        \cup {"mismatched_fake_kernel" :> c : c \in MismatchedFakeKernel}
        \cup {"dynamo_start" :> [stack |-> StackB]}

\* dtrace_structured("exported_program", payload_fn=lambda: str(ep))
ExportedProgramRecord == "exported_program" :> [payload |-> "ep"]

\* Keys trace_structured adds to a record's metadata next to the event's own
\* key.
AuxKeys == {"frame_id"}

\* The key of the event a record carries.
EventKey(metadata) == CHOOSE k \in DOMAIN metadata : k \notin AuxKeys

\* A handler that stores every record, whatever its key.
emit_unfiltered(keys, ls, metadata) ==
    Append(ls, <<EventKey(metadata), metadata[EventKey(metadata)]>>)

\* CaptureStructuredTrace.emit
RECURSIVE EmitFrom(_, _, _, _)
EmitFrom(keys, k, ls, metadata) ==
    IF k > Len(keys) THEN ls
    ELSE IF keys[k] \in DOMAIN metadata
         THEN EmitFrom(keys, k + 1, Append(ls, <<keys[k], metadata[keys[k]]>>), metadata)
         ELSE EmitFrom(keys, k + 1, ls, metadata)

emit(keys, ls, metadata) == EmitFrom(keys, 1, ls, metadata)

\* ------------------------------------------------------------------ state

VARIABLES
    GET_DTRACE_STRUCTURED,  \* torch._logging._internal.GET_DTRACE_STRUCTURED
    handlers,               \* handlers of logging.getLogger("torch.__trace")
    root_dir,               \* lazy_trace_handler.root_dir
    logs,                   \* capture_structured_log.logs
    prev_get_dtrace,        \* capture_structured_log.prev_get_dtrace
    pc,                     \* position of draft_export
    new_shapes,             \* draft_export's local new_shapes
    calls,                  \* the _export invocations: shapes passed, result
    ep,                     \* draft_export's local ep
    idx,                    \* position of the classifier's for loop (1-based)
    failures,               \* the list failures / report.failures
    custom_ops_logs,        \* keys of custom_ops_logs, in insertion order
    data_dependent_logs,    \* the defaultdict(int) data_dependent_logs
    report,                 \* whether DraftExportReport(failures, ...) is built
    exc,                    \* the exception in flight / raised to the caller
    summary,                \* which closing summary draft_export logged
    flag_at_enter,          \* history: the flag when the scope was entered
    emitted,                \* history: the captured events as emit stored them
    ep_report,              \* the attribute ep._report
    cap,                    \* the CaptureStructuredTrace objects of other callers
    scope_trace,            \* history: their __enter__/__exit__ calls, in order
    files,                  \* the source files on disk, as open() finds them
    called,                 \* the last call of a method of the report, its outcome
    mctx,                   \* a MetricsContext object: _level, _metrics, _start_time_ns
    mlog,                   \* history: the calls made on it and what on_exit received
    rctx,                   \* a RuntimeMetricsContext object: _metrics, _start_time_ns
    rlog,                   \* history: the calls made on it and what on_exit received
    fstack                  \* a call of filter_stack: its argument and its result

vars == <<GET_DTRACE_STRUCTURED, handlers, root_dir, logs, prev_get_dtrace, pc,
          new_shapes, calls, ep, idx, failures, custom_ops_logs,
          data_dependent_logs, report, exc, summary, flag_at_enter, emitted,
          ep_report, cap, scope_trace, files, called, mctx, mlog, rctx, rlog,
          fstack>>

captureVars == <<GET_DTRACE_STRUCTURED, handlers, prev_get_dtrace, flag_at_enter>>
classifierVars == <<idx, failures, custom_ops_logs, data_dependent_logs, report>>
\* The metrics contexts of torch._dynamo and a caller's own filter_stack call.
elsewhereVars == <<mctx, mlog, rctx, rlog, fstack>>
\* What a run of draft_export never touches: the capture objects of other
\* callers, the files on disk, the calls made on a report, and elsewhereVars.
outsideVars == <<cap, scope_trace, files, called, elsewhereVars>>

\* The CaptureStructuredTrace objects other callers may hold.
Handles == {"A", "B"}

\* An object not constructed yet.  state, heard and flag_at_enter are history:
\* where the object is in its life, the records the logger handed to it since
\* its __enter__, and the flag its __enter__ found.
NotCreated ==
    [state |-> "none", specific_log_keys |-> <<>>, logs |-> <<>>,
     prev_get_dtrace |-> FALSE, heard |-> <<>>, flag_at_enter |-> FALSE]

\* The source files the interned filenames name.
Paths == DOMAIN INTERN_TABLE

\* What open(path) and the read of the file do: the file is there and has the
\* line ("readable"), is there but shorter ("short"), is gone ("missing":
\* FileNotFoundError), or is there and cannot be opened ("denied":
\* PermissionError).
FileStates == {"readable", "short", "missing", "denied"}

\* No method of the report has been called.
NoOutput == [banner |-> "None", count |-> 0, blocks |-> <<>>]

NoCall == [method |-> "None", outcome |-> "None", output |-> NoOutput, before |-> <<>>]

\* The caller's dynamic_shapes argument (after `dynamic_shapes or {}`).
dynamic_shapes == "{}"

\* Messages of the UserError the first attempt may raise.
UserErrorMsgs == {"Suggested fixes: dim = 3", "Suggested fixes: dim = Dim.AUTO"}

\* refine_dynamic_shapes_from_suggested_fixes(exc.msg, dynamic_shapes): the
\* shapes with the fixes the message suggests applied.
refine_dynamic_shapes_from_suggested_fixes(msg, shapes) ==
    IF msg = "Suggested fixes: dim = 3" THEN "{0: 3}" ELSE "{0: Dim.AUTO}"

\* No exception in flight.
NoException == [type |-> "None", origin |-> "None", attempt |-> 0]

\* Exceptions _export may raise: the user-correctable UserError and others.
OtherExceptions == {"RuntimeError"}

\* The per-user temporary directory of __init__.
TmpExportDir == "/tmp/export_user"


\* --------------------------------------------------------- report aggregate

\* all(failure.xfail for failure in self.failures), by iteration.
RECURSIVE AllXfail(_, _)
AllXfail(fs, i) ==
    IF i > Len(fs) THEN TRUE
    ELSE IF fs[i].xfail THEN AllXfail(fs, i + 1) ELSE FALSE

\* any() where the code has all().
successful_any(fs) == Len(fs) = 0 \/ \E i \in 1..Len(fs) : fs[i].xfail

\* DraftExportReport.successful
successful(fs) == Len(fs) = 0 \/ AllXfail(fs, 1)

\* A record born suppressed.
FailureReport_xfail(failure_type, data, src) ==
    [failure_type |-> failure_type, data |-> data, xfail |-> TRUE, src |-> src]

\* FailureReport(failure_type, data): xfail defaults to False.  src is history:
\* the position in the captured list of the event the record was built from.
FailureReport(failure_type, data, src) ==
    [failure_type |-> failure_type, data |-> data, xfail |-> FALSE, src |-> src]

\* ------------------------------------------------------- metrics contexts

\* The metric names the callers use.
MetricNames == {"a", "b"}

\* What a metric can hold: an int (increment, set, update), a dict
\* (set_key_value), a set (add_to_set), or None (an extra of the runtime
\* context).  One record shape for all, so that any two can be compared.
IntValue(n) == [kind |-> "int", n |-> n, elems |-> {}, items |-> {}]
DictValue(items) == [kind |-> "dict", n |-> 0, elems |-> {}, items |-> items]
SetValue(elems) == [kind |-> "set", n |-> 0, elems |-> elems, items |-> {}]
NoneValue == [kind |-> "None", n |-> 0, elems |-> {}, items |-> {}]

\* Python dicts keyed by metric name: {}, d[k] = v, d.update(values).
EmptyDict == [m \in {} |-> NoneValue]
DictSet(d, k, v) == [x \in DOMAIN d \cup {k} |-> IF x = k THEN v ELSE d[x]]
DictUpdate(d, values) ==
    [x \in DOMAIN d \cup DOMAIN values |->
        IF x \in DOMAIN values THEN values[x] ELSE d[x]]

\* MetricsContext.__init__.
NewMetricsContext == [_level |-> 0, _metrics |-> EmptyDict, _start_time_ns |-> 0]

\* The arguments of an on_exit call; NoPayload while it was never called.
Payload(start, end, metrics, exc_type) ==
    [start_time_ns |-> start, end_time_ns |-> end, metrics |-> metrics,
     exc_type |-> exc_type]
NoPayload == Payload(0, 0, EmptyDict, None)

\* The last call of a mutator: its name and arguments, the level and the
\* metrics it found, and the exception it raised.
Call(name, metric, values, overwrite, level, before, raised) ==
    [name |-> name, metric |-> metric, values |-> values, overwrite |-> overwrite,
     level |-> level, before |-> before, raised |-> raised]
NoMutatorCall == Call(None, None, EmptyDict, FALSE, 0, EmptyDict, None)

\* History of the MetricsContext: its __enter__/__exit__ calls in order, the
\* positions in that order of the __exit__ calls that called on_exit, the
\* arguments on_exit received when the last of these calls was an __exit__
\* that called it, the metrics written since the outermost __enter__ (each
\* with whether it was written in a nested block), the mutator last called since, and
\* whether an __exit__ came without an open __enter__.
NoMetricsCalls ==
    [trace |-> <<>>, on_exit |-> <<>>, payload |-> NoPayload, since |-> {},
     op |-> NoMutatorCall, unmatched |-> FALSE]

\* RuntimeMetricsContext.__init__.
NewRuntimeMetricsContext == [_metrics |-> EmptyDict, _start_time_ns |-> 0]

\* History of the RuntimeMetricsContext: the clock (one tick per call), the
\* number of on_exit calls, the last call made, the exception it let through
\* and the same for the call before it, the metrics the last call found,
\* whether it called on_exit and with which arguments, and per metric the sum
\* of the increments made, the sum of the values handed to on_exit, and the
\* sum of those handed to an on_exit that returned.
NoRuntimeCalls ==
    [now |-> 0, on_exit |-> 0, payload |-> NoPayload, op |-> None,
     raised |-> None, prev |-> None, prev_raised |-> None,
     called_on_exit |-> FALSE, before |-> EmptyDict,
     incremented |-> [m \in MetricNames |-> 0],
     reported |-> [m \in MetricNames |-> 0],
     accepted |-> [m \in MetricNames |-> 0]]

\* No call of filter_stack made yet.
NoFilterCall == [called |-> FALSE, stack |-> <<>>, result |-> <<>>]

\* Nothing outside draft_export has happened.
ElsewhereIdle ==
    /\ mctx = NewMetricsContext
    /\ mlog = NoMetricsCalls
    /\ rctx = NewRuntimeMetricsContext
    /\ rlog = NoRuntimeCalls
    /\ fstack = NoFilterCall

\* ------------------------------------------------------------------- Init

\* The process before draft_export is called: the flag either way, the trace
\* logger with its LazyTraceHandler (root_dir unset, the default without
\* TORCH_TRACE) or with that handler taken off.
Init ==
    /\ GET_DTRACE_STRUCTURED \in BOOLEAN
    /\ \/ handlers = {"LazyTraceHandler"} /\ root_dir = None
       \/ handlers = {} /\ root_dir = None
    /\ logs = <<>>
    /\ prev_get_dtrace = FALSE
    /\ pc = "NotStarted"
    /\ new_shapes = None
    /\ calls = <<>>
    /\ ep = None
    /\ idx = 0
    /\ failures = <<>>
    /\ custom_ops_logs = <<>>
    /\ data_dependent_logs = <<>>
    /\ report = FALSE
    /\ exc = NoException
    /\ summary = None
    /\ flag_at_enter = GET_DTRACE_STRUCTURED
    /\ emitted = <<>>
    /\ ep_report = None
    /\ cap = [h \in Handles |-> NotCreated]
    /\ scope_trace = <<>>
    /\ files = [p \in Paths |-> "readable"]
    /\ called = NoCall
    /\ ElsewhereIdle

\* ------------------------------------------------- CaptureStructuredTrace

\* An __init__ that does not look for the lazy trace handler.
Construct_without_lookup ==
    /\ pc = "NotStarted"
    /\ logs' = <<>>
    /\ prev_get_dtrace' = FALSE
    /\ root_dir' = root_dir
    /\ pc' = "constructed"
    /\ UNCHANGED <<GET_DTRACE_STRUCTURED, handlers, new_shapes, calls, ep, exc,
                   summary, flag_at_enter, emitted>>
    /\ UNCHANGED classifierVars
    /\ UNCHANGED ep_report
    /\ UNCHANGED outsideVars

\* CaptureStructuredTrace.__init__ as draft_export calls it: next(...) over the
\* logger's handlers raises StopIteration when no LazyTraceHandler is there.
Construct ==
    /\ pc = "NotStarted"
    /\ logs' = <<>>
    /\ prev_get_dtrace' = FALSE
    /\ IF "LazyTraceHandler" \in handlers
       THEN /\ root_dir' = (IF root_dir = None THEN TmpExportDir ELSE root_dir)
            /\ pc' = "constructed"
            /\ exc' = exc
       ELSE /\ root_dir' = root_dir
            /\ pc' = "raised"
            /\ exc' = [type |-> "StopIteration", origin |-> "__init__", attempt |-> 0]
    /\ UNCHANGED <<GET_DTRACE_STRUCTURED, handlers, new_shapes, calls, ep,
                   summary, flag_at_enter, emitted>>
    /\ UNCHANGED classifierVars
    /\ UNCHANGED ep_report
    /\ UNCHANGED outsideVars

\* CaptureStructuredTrace.__enter__, then the first statements of the with
\* body: new_shapes = None and the first call of _export.
Enter ==
    /\ pc = "constructed"
    /\ logs' = <<>>
    /\ handlers' = handlers \cup {"CaptureStructuredTrace"}
    /\ prev_get_dtrace' = GET_DTRACE_STRUCTURED
    /\ flag_at_enter' = GET_DTRACE_STRUCTURED
    /\ GET_DTRACE_STRUCTURED' = TRUE
    /\ new_shapes' = None
    /\ calls' = Append(calls, [dynamic_shapes |-> dynamic_shapes, result |-> "running"])
    /\ pc' = "first_attempt"
    /\ emitted' = <<>>
    /\ UNCHANGED <<root_dir, ep, exc, summary>>
    /\ UNCHANGED classifierVars
    /\ UNCHANGED ep_report
    /\ UNCHANGED outsideVars

\* An __exit__ that switches the flag off instead of restoring what __enter__
\* saved.
Exit_flag_off ==
    /\ pc = "exit"
    /\ logs' = <<>>
    /\ handlers' = handlers \ {"CaptureStructuredTrace"}
    /\ GET_DTRACE_STRUCTURED' = FALSE
    /\ prev_get_dtrace' = FALSE
    /\ pc' = (IF exc = NoException THEN "attach" ELSE "raised")
    /\ UNCHANGED <<root_dir, new_shapes, calls, ep, exc, summary, flag_at_enter,
                   emitted>>
    /\ UNCHANGED classifierVars
    /\ UNCHANGED ep_report
    /\ UNCHANGED outsideVars

\* CaptureStructuredTrace.__exit__; it returns None, so an exception in flight
\* goes on to the caller of draft_export.
Exit ==
    /\ pc = "exit"
    /\ logs' = <<>>
    /\ handlers' = handlers \ {"CaptureStructuredTrace"}
    /\ GET_DTRACE_STRUCTURED' = prev_get_dtrace
    /\ prev_get_dtrace' = FALSE
    /\ pc' = (IF exc = NoException THEN "attach" ELSE "raised")
    /\ UNCHANGED <<root_dir, new_shapes, calls, ep, exc, summary, flag_at_enter,
                   emitted>>
    /\ UNCHANGED classifierVars
    /\ UNCHANGED ep_report
    /\ UNCHANGED outsideVars

\* The trace logger hands a record to its handlers while _export runs.
Emit(metadata) ==
    /\ pc \in {"first_attempt", "retry_attempt"}
    /\ "CaptureStructuredTrace" \in handlers
    /\ Len(emit(specific_log_keys, logs, metadata)) <= MaxLogs
    /\ logs' = emit(specific_log_keys, logs, metadata)
    /\ emitted' = emit(specific_log_keys, emitted, metadata)
    /\ UNCHANGED <<root_dir, pc, new_shapes, calls, ep, exc, summary>>
    /\ UNCHANGED captureVars
    /\ UNCHANGED classifierVars
    /\ UNCHANGED ep_report
    /\ UNCHANGED outsideVars

\* ------------------------------------------------------------ orchestrator

SetResult(cs, r) == [cs EXCEPT ![Len(cs)].result = r]

\* The first _export returns.
FirstAttemptReturns ==
    /\ pc = "first_attempt"
    /\ ep' = "ep1"
    /\ calls' = SetResult(calls, "returned")
    /\ pc' = "exported"
    /\ UNCHANGED <<root_dir, logs, new_shapes, exc, summary, emitted>>
    /\ UNCHANGED captureVars
    /\ UNCHANGED classifierVars
    /\ UNCHANGED ep_report
    /\ UNCHANGED outsideVars

\* A retry that starts from an empty captured list, as a second `with` would.
FirstAttemptUserError_fresh_scope(msg) ==
    /\ pc = "first_attempt"
    /\ new_shapes' = refine_dynamic_shapes_from_suggested_fixes(msg, dynamic_shapes)
    /\ calls' = Append(SetResult(calls, "UserError"),
                       [dynamic_shapes |-> new_shapes', result |-> "running"])
    /\ pc' = "retry_attempt"
    /\ logs' = <<>>
    /\ UNCHANGED <<root_dir, ep, exc, summary, emitted>>
    /\ UNCHANGED captureVars
    /\ UNCHANGED classifierVars
    /\ UNCHANGED ep_report
    /\ UNCHANGED outsideVars

\* The first _export raises UserError: the except clause refines the shapes
\* and calls _export a second time.
FirstAttemptUserError(msg) ==
    /\ pc = "first_attempt"
    /\ new_shapes' = refine_dynamic_shapes_from_suggested_fixes(msg, dynamic_shapes)
    /\ calls' = Append(SetResult(calls, "UserError"),
                       [dynamic_shapes |-> new_shapes', result |-> "running"])
    /\ pc' = "retry_attempt"
    /\ UNCHANGED <<root_dir, logs, ep, exc, summary, emitted>>
    /\ UNCHANGED captureVars
    /\ UNCHANGED classifierVars
    /\ UNCHANGED ep_report
    /\ UNCHANGED outsideVars

\* The first _export raises an exception that is no UserError: no except
\* clause matches and the with statement unwinds.
FirstAttemptOtherError(type) ==
    /\ pc = "first_attempt"
    /\ calls' = SetResult(calls, type)
    /\ exc' = [type |-> type, origin |-> "_export", attempt |-> 1]
    /\ pc' = "exit"
    /\ UNCHANGED <<root_dir, logs, new_shapes, ep, summary, emitted>>
    /\ UNCHANGED captureVars
    /\ UNCHANGED classifierVars
    /\ UNCHANGED ep_report
    /\ UNCHANGED outsideVars

\* A try statement whose except clause catches nothing.
FirstAttemptRaises_uncaught(type) == FirstAttemptOtherError(type)

\* What the try statement does when the first _export raises `type`.
FirstAttemptRaises(type) ==
    IF type = "UserError"
    THEN \E msg \in UserErrorMsgs : FirstAttemptUserError(msg)
    ELSE FirstAttemptOtherError(type)

\* The second _export returns.
RetryReturns ==
    /\ pc = "retry_attempt"
    /\ ep' = "ep2"
    /\ calls' = SetResult(calls, "returned")
    /\ pc' = "exported"
    /\ UNCHANGED <<root_dir, logs, new_shapes, exc, summary, emitted>>
    /\ UNCHANGED captureVars
    /\ UNCHANGED classifierVars
    /\ UNCHANGED ep_report
    /\ UNCHANGED outsideVars

\* A retry loop: a UserError of the second attempt starts a third one.
RetryRaises_again(type) ==
    /\ pc = "retry_attempt"
    /\ IF type = "UserError" /\ Len(calls) < 3
       THEN /\ calls' = Append(SetResult(calls, type),
                               [dynamic_shapes |-> new_shapes, result |-> "running"])
            /\ UNCHANGED <<exc, pc>>
       ELSE /\ calls' = SetResult(calls, type)
            /\ exc' = [type |-> type, origin |-> "_export", attempt |-> 2]
            /\ pc' = "exit"
    /\ UNCHANGED <<root_dir, logs, new_shapes, ep, summary, emitted>>
    /\ UNCHANGED captureVars
    /\ UNCHANGED classifierVars
    /\ UNCHANGED ep_report
    /\ UNCHANGED outsideVars

\* The second _export raises: it runs inside the except clause, nothing
\* catches it.
RetryRaises(type) ==
    /\ pc = "retry_attempt"
    /\ calls' = SetResult(calls, type)
    /\ exc' = [type |-> type, origin |-> "_export", attempt |-> 2]
    /\ pc' = "exit"
    /\ UNCHANGED <<root_dir, logs, new_shapes, ep, summary, emitted>>
    /\ UNCHANGED captureVars
    /\ UNCHANGED classifierVars
    /\ UNCHANGED ep_report
    /\ UNCHANGED outsideVars

\* dtrace_structured("exported_program", ...) reaches the capture handler,
\* then the classifier's locals are set up.
BeginClassify ==
    /\ pc = "exported"
    /\ logs' = emit(specific_log_keys, logs, ExportedProgramRecord)
    /\ emitted' = emit(specific_log_keys, emitted, ExportedProgramRecord)
    /\ failures' = <<>>
    /\ custom_ops_logs' = <<>>
    /\ data_dependent_logs' = <<>>
    /\ idx' = 1
    /\ pc' = "classify"
    /\ UNCHANGED <<root_dir, new_shapes, calls, ep, exc, summary, report>>
    /\ UNCHANGED captureVars
    /\ UNCHANGED ep_report
    /\ UNCHANGED outsideVars


\* -------------------------------------------------------------- classifier

\* log_contents[field] = value on a dict.
SetItem(d, field, value) == (field :> value) @@ d

\* data_dependent_logs[key] += 1 on a defaultdict(int).
Increment(d, key) ==
    IF key \in DOMAIN d THEN [d EXCEPT ![key] = @ + 1] ELSE (key :> 1) @@ d

\* A lookup that goes by the operator alone, whatever the kind of the entry.
InKeys_by_operator(key, ks) == \E i \in 1..Len(ks) : ks[i][1] = key[1]

InKeys(key, ks) == \E i \in 1..Len(ks) : ks[i] = key

\* `continue`: the loop moves on, nothing is appended.
Continue ==
    /\ idx' = idx + 1
    /\ UNCHANGED <<pc, exc, failures, custom_ops_logs>>

\* failures.insert(0, ...): the newest record first.
AppendFailure_front(failure_type, log_contents) ==
    /\ failures' = <<FailureReport(failure_type, log_contents, idx)>> \o failures
    /\ idx' = idx + 1
    /\ UNCHANGED <<pc, exc>>

\* failures.append(FailureReport(failure_type, log_contents)) at the end of the
\* loop body.
AppendFailure(failure_type, log_contents) ==
    /\ failures' = Append(failures, FailureReport(failure_type, log_contents, idx))
    /\ idx' = idx + 1
    /\ UNCHANGED <<pc, exc>>

\* log_name == "propagate_real_tensors"
ClassifyPropagateRealTensors(log_contents) ==
    LET contents == SetItem(log_contents, "stack", filter_stack(log_contents.stack))
        key == hash_stack(contents.stack)
    IN /\ logs' = [logs EXCEPT ![idx] = <<logs[idx][1], contents>>]
       /\ data_dependent_logs' = Increment(data_dependent_logs, key)
       /\ UNCHANGED custom_ops_logs
       /\ IF data_dependent_logs'[key] > 1
          THEN /\ idx' = idx + 1
               /\ UNCHANGED <<pc, exc, failures>>
          ELSE AppendFailure(DATA_DEPENDENT_ERROR, contents)

\* Only the second `continue`: the test of new_shapes is missing.
GuardDropped_sources_only(log_contents, shapes) ==
    Len(log_contents.symbol_to_sources) = 0

\* The two `continue`s of the guard_added branch: no refinement happened, or
\* the guard has no source.
GuardDropped(log_contents, shapes) ==
    shapes = None \/ Len(log_contents.symbol_to_sources) = 0

\* The payload with the caller's shapes in place of the refined ones.
GuardPayload_caller_shapes(log_contents, shapes) ==
    SetItem(SetItem(log_contents, "stack", filter_stack(log_contents.stack)),
            "new_dynamic_shapes", dynamic_shapes)

\* The guard_added payload once kept: the filtered stack and the refined
\* shapes.
GuardPayload(log_contents, shapes) ==
    SetItem(SetItem(log_contents, "stack", filter_stack(log_contents.stack)),
            "new_dynamic_shapes", shapes)

\* log_name == "guard_added"
ClassifyGuardAdded(log_contents) ==
    /\ UNCHANGED <<data_dependent_logs, custom_ops_logs>>
    /\ IF GuardDropped(log_contents, new_shapes)
       THEN /\ idx' = idx + 1
            /\ UNCHANGED <<pc, exc, failures, logs>>
       ELSE LET contents == GuardPayload(log_contents, new_shapes)
            IN /\ logs' = [logs EXCEPT ![idx] = <<logs[idx][1], contents>>]
               /\ AppendFailure(CONSTRAINT_VIOLATION_ERROR, contents)

\* The keys of custom_ops_logs: the operator (a str) for a missing kernel, the
\* tuple (operator, reason) for a mismatched one.  A str never equals a tuple,
\* as a 1-tuple never equals a 2-tuple here.
MissingKey(log_contents) == <<log_contents.op>>

\* A mismatch keyed by the operator alone.
MismatchedKey_op_only(log_contents) == <<log_contents.op>>

MismatchedKey(log_contents) == <<log_contents.op, log_contents.reason>>

\* The key is never stored.
RecordCustomOp_forgotten(ks, key) == ks

\* custom_ops_logs[key] = (log_contents, failure_type)
RecordCustomOp(ks, key) == Append(ks, key)

\* log_name == "missing_fake_kernel"
ClassifyMissingFakeKernel(log_contents) ==
    /\ UNCHANGED <<data_dependent_logs, logs>>
    /\ IF InKeys(MissingKey(log_contents), custom_ops_logs)
       THEN Continue
       ELSE /\ custom_ops_logs' = RecordCustomOp(custom_ops_logs, MissingKey(log_contents))
            /\ AppendFailure(MISSING_FAKE_KERNEL, log_contents)

\* log_name == "mismatched_fake_kernel"
ClassifyMismatchedFakeKernel(log_contents) ==
    /\ UNCHANGED <<data_dependent_logs, logs>>
    /\ IF InKeys(MismatchedKey(log_contents), custom_ops_logs)
       THEN Continue
       ELSE /\ custom_ops_logs' =
                   RecordCustomOp(custom_ops_logs, MismatchedKey(log_contents))
            /\ AppendFailure(MISMATCHED_FAKE_KERNEL, log_contents)

\* An unknown key skipped with `continue`.
ClassifyUnknown_skipped ==
    /\ Continue
    /\ UNCHANGED <<data_dependent_logs, logs>>

\* else: raise RuntimeError(f"Unknown log name: {log_name}")
ClassifyUnknown ==
    /\ exc' = [type |-> "RuntimeError", origin |-> "classifier", attempt |-> 0]
    /\ pc' = "exit"
    /\ UNCHANGED <<idx, failures, custom_ops_logs, data_dependent_logs, logs>>

\* One iteration of `for log_name, log_contents in capture_structured_log.logs`.
ClassifyEvent ==
    /\ pc = "classify"
    /\ idx <= Len(logs)
    /\ LET log_name == logs[idx][1]
           log_contents == logs[idx][2]
       IN CASE log_name = "propagate_real_tensors" ->
                   ClassifyPropagateRealTensors(log_contents)
            [] log_name = "guard_added" -> ClassifyGuardAdded(log_contents)
            [] log_name = "missing_fake_kernel" ->
                   ClassifyMissingFakeKernel(log_contents)
            [] log_name = "mismatched_fake_kernel" ->
                   ClassifyMismatchedFakeKernel(log_contents)
            [] OTHER -> ClassifyUnknown
    /\ UNCHANGED <<root_dir, new_shapes, calls, ep, summary, report, emitted>>
    /\ UNCHANGED captureVars
    /\ UNCHANGED ep_report
    /\ UNCHANGED outsideVars

\* failure.data["occurrences"] = data_dependent_logs[hash_stack(...)] for one
\* record; other kinds are left alone.
WithOccurrences(failure) ==
    IF failure.failure_type = DATA_DEPENDENT_ERROR
    THEN [failure EXCEPT !.data =
              SetItem(@, "occurrences",
                      data_dependent_logs[hash_stack(failure.data.stack)])]
    ELSE failure

\* A strict export: the end of the loop raises when a record was collected.
CountOccurrences_strict ==
    /\ pc = "classify"
    /\ idx > Len(logs)
    /\ IF failures # <<>>
       THEN /\ exc' = [type |-> "RuntimeError", origin |-> "classifier", attempt |-> 0]
            /\ UNCHANGED <<failures, logs, report>>
       ELSE /\ report' = TRUE
            /\ UNCHANGED <<failures, logs, exc>>
    /\ pc' = "exit"
    /\ UNCHANGED <<root_dir, new_shapes, calls, ep, summary, idx,
                   custom_ops_logs, data_dependent_logs, emitted>>
    /\ UNCHANGED captureVars
    /\ UNCHANGED ep_report
    /\ UNCHANGED outsideVars

\* The loop has ended: the counting pass over failures, the report object and
\* insert_custom_op_guards; the with block ends.
CountOccurrences ==
    /\ pc = "classify"
    /\ idx > Len(logs)
    /\ failures' = [i \in 1..Len(failures) |-> WithOccurrences(failures[i])]
    /\ logs' = [i \in 1..Len(logs) |->
                   IF \E j \in 1..Len(failures) : failures[j].src = i
                   THEN <<logs[i][1],
                          (LET j == CHOOSE j \in 1..Len(failures) : failures[j].src = i
                           IN failures'[j].data)>>
                   ELSE logs[i]]
    /\ report' = TRUE
    /\ pc' = "exit"
    /\ UNCHANGED <<root_dir, new_shapes, calls, ep, exc, summary, idx,
                   custom_ops_logs, data_dependent_logs, emitted>>
    /\ UNCHANGED captureVars
    /\ UNCHANGED ep_report
    /\ UNCHANGED outsideVars

\* After the with block: ep._report = report, the closing summary, return.
Return ==
    /\ pc = "attach"
    /\ summary' = (IF ~successful(failures) THEN "warning" ELSE "info")
    /\ pc' = "returned"
    /\ UNCHANGED <<root_dir, logs, new_shapes, calls, ep, exc, emitted>>
    /\ UNCHANGED captureVars
    /\ UNCHANGED classifierVars
    /\ ep_report' = "report"
    /\ UNCHANGED outsideVars

\* The caller marks a record of the returned report as an expected failure, or
\* takes the mark back.
SetXfail(i, b) ==
    /\ pc = "returned"
    /\ i \in 1..Len(failures)
    /\ failures[i].xfail # b
    /\ failures' = [failures EXCEPT ![i].xfail = b]
    /\ UNCHANGED <<root_dir, logs, pc, new_shapes, calls, ep, exc, summary,
                   emitted, idx, custom_ops_logs, data_dependent_logs, report>>
    /\ UNCHANGED captureVars
    /\ UNCHANGED ep_report
    /\ UNCHANGED outsideVars

\* ------------------------------------------------------------------- Next

ExceptionTypes == {"UserError"} \cup OtherExceptions

Next ==
    \/ Construct
    \/ Enter
    \/ \E metadata \in Metadata : Emit(metadata)
    \/ FirstAttemptReturns
    \/ \E type \in ExceptionTypes : FirstAttemptRaises(type)
    \/ RetryReturns
    \/ \E type \in ExceptionTypes : RetryRaises(type)
    \/ BeginClassify
    \/ ClassifyEvent
    \/ CountOccurrences
    \/ Exit
    \/ Return
    \/ \E i \in 1..MaxLogs, b \in BOOLEAN : SetXfail(i, b)

Spec == Init /\ [][Next]_vars


\* ------------------------------------------- the classifier on any log list

\* Keys a captured list may hold when it is not draft_export's own handler that
\* filled it: the four known ones and one the classifier does not know.
CapturedEvents ==
    {<<"propagate_real_tensors", c>> : c \in PropagateRealTensors}
        \cup {<<"guard_added", c>> : c \in GuardAdded}
        \cup {<<"missing_fake_kernel", c>> : c \in MissingFakeKernel}
        \cup {<<"mismatched_fake_kernel", c>> : c \in MismatchedFakeKernel}
        \cup {<<"artifact", [name |-> "fx_graph"]>>}

SeqsUpTo(S, n) == UNION {[1..k -> S] : k \in 0..n}

\* The state at the head of the classifier (line 280 on) for any captured list
\* and either outcome of the first attempt.
InitClassifier ==
    /\ GET_DTRACE_STRUCTURED = TRUE
    /\ handlers = {"LazyTraceHandler", "CaptureStructuredTrace"}
    /\ root_dir = TmpExportDir
    /\ logs \in SeqsUpTo(CapturedEvents, MaxLogs)
    /\ prev_get_dtrace = FALSE
    /\ pc = "classify"
    /\ \/ /\ new_shapes = None
          /\ calls = <<[dynamic_shapes |-> dynamic_shapes, result |-> "returned"]>>
          /\ ep = "ep1"
       \/ /\ new_shapes \in {refine_dynamic_shapes_from_suggested_fixes(m, dynamic_shapes) :
                                m \in UserErrorMsgs}
          /\ calls = <<[dynamic_shapes |-> dynamic_shapes, result |-> "UserError"],
                       [dynamic_shapes |-> new_shapes, result |-> "returned"]>>
          /\ ep = "ep2"
    /\ idx = 1
    /\ failures = <<>>
    /\ custom_ops_logs = <<>>
    /\ data_dependent_logs = <<>>
    /\ report = FALSE
    /\ exc = NoException
    /\ summary = None
    /\ flag_at_enter = FALSE
    /\ emitted = logs
    /\ ep_report = None
    /\ cap = [h \in Handles |-> NotCreated]
    /\ scope_trace = <<>>
    /\ files = [p \in Paths |-> "readable"]
    /\ called = NoCall
    /\ ElsewhereIdle

NextClassifier ==
    \/ ClassifyEvent
    \/ CountOccurrences
    \/ Exit
    \/ Return

SpecClassifier == InitClassifier /\ [][NextClassifier]_vars


\* ------------------------------ draft_export, each attempt with its own events

\* A directory the caller gave the lazy trace handler beforehand.
CallerRootDir == "/data/traces"

\* Any state draft_export may be called in: the flag on or off, the trace
\* logger with or without its lazy handler, root_dir set by the caller or not.
InitScope ==
    /\ GET_DTRACE_STRUCTURED \in BOOLEAN
    /\ handlers \in {{}, {"LazyTraceHandler"}}
    /\ root_dir \in {None, CallerRootDir}
    /\ logs = <<>>
    /\ prev_get_dtrace = FALSE
    /\ pc = "NotStarted"
    /\ new_shapes = None
    /\ calls = <<>>
    /\ ep = None
    /\ idx = 0
    /\ failures = <<>>
    /\ custom_ops_logs = <<>>
    /\ data_dependent_logs = <<>>
    /\ report = FALSE
    /\ exc = NoException
    /\ summary = None
    /\ flag_at_enter = GET_DTRACE_STRUCTURED
    /\ emitted = <<>>
    /\ ep_report = None
    /\ cap = [h \in Handles |-> NotCreated]
    /\ scope_trace = <<>>
    /\ files = [p \in Paths |-> "readable"]
    /\ called = NoCall
    /\ ElsewhereIdle

\* Records of a run whose first _export only reports guards and a missing
\* kernel, and whose second _export only reports data-dependent expressions
\* and a mismatched kernel: the key of a captured event then tells which
\* attempt emitted it.
FirstAttemptMetadata ==
    {"guard_added" :> c : c \in GuardAdded}
        \cup {"missing_fake_kernel" :> [op |-> "mylib::foo"]}

RetryMetadata ==
    {"propagate_real_tensors" :> c : c \in PropagateRealTensors}
        \cup {"mismatched_fake_kernel" :> [op |-> "mylib::foo", reason |-> "dtype"]}

EmitFirst(metadata) == pc = "first_attempt" /\ Emit(metadata)

EmitRetry(metadata) == pc = "retry_attempt" /\ Emit(metadata)

NextScope ==
    \/ Construct
    \/ Enter
    \/ \E metadata \in FirstAttemptMetadata : EmitFirst(metadata)
    \/ \E metadata \in RetryMetadata : EmitRetry(metadata)
    \/ FirstAttemptReturns
    \/ \E type \in ExceptionTypes : FirstAttemptRaises(type)
    \/ RetryReturns
    \/ \E type \in ExceptionTypes : RetryRaises(type)
    \/ BeginClassify
    \/ ClassifyEvent
    \/ CountOccurrences
    \/ Exit
    \/ Return

SpecScope == InitScope /\ [][NextScope]_vars

\* ------------------------------- CaptureStructuredTrace held by other callers

\* Allow-lists a caller may construct the handler with.
AllowLists == {specific_log_keys, <<"missing_fake_kernel">>}

\* Records on the trace logger: the event's key with its payload and the
\* frame_id trace_structured adds.
ChannelMetadata ==
    {("guard_added" :> [expr |-> "s0 == 3", symbol_to_sources |-> <<>>, stack |-> StackB])
         @@ ("frame_id" :> 0),
     ("missing_fake_kernel" :> [op |-> "mylib::foo"]) @@ ("frame_id" :> 0),
     ("dynamo_start" :> [stack |-> StackB]) @@ ("frame_id" :> 0)}

\* No draft_export is running; callers hold no capture object yet.
InitCapture ==
    /\ GET_DTRACE_STRUCTURED \in BOOLEAN
    /\ handlers \in {{}, {"LazyTraceHandler"}}
    /\ root_dir = None
    /\ logs = <<>>
    /\ prev_get_dtrace = FALSE
    /\ pc = "NotStarted"
    /\ new_shapes = None
    /\ calls = <<>>
    /\ ep = None
    /\ idx = 0
    /\ failures = <<>>
    /\ custom_ops_logs = <<>>
    /\ data_dependent_logs = <<>>
    /\ report = FALSE
    /\ exc = NoException
    /\ summary = None
    /\ flag_at_enter = GET_DTRACE_STRUCTURED
    /\ emitted = <<>>
    /\ ep_report = None
    /\ cap = [h \in Handles |-> NotCreated]
    /\ scope_trace = <<>>
    /\ files = [p \in Paths |-> "readable"]
    /\ called = NoCall
    /\ ElsewhereIdle

\* What the actions on capture objects leave alone: draft_export's own state.
draftExportVars ==
    <<logs, prev_get_dtrace, pc, new_shapes, calls, ep, idx, failures,
      custom_ops_logs, data_dependent_logs, report, exc, summary, flag_at_enter,
      emitted, ep_report, files, called, elsewhereVars>>

\* CaptureStructuredTrace(keys): next(...) raises StopIteration when the logger
\* has no LazyTraceHandler, after the fields were set; root_dir is filled in
\* only when it is None.
CapConstruct(h, keys) ==
    /\ cap[h].state = "none"
    /\ IF "LazyTraceHandler" \in handlers
       THEN /\ cap' = [cap EXCEPT ![h] =
                          [NotCreated EXCEPT !.state = "constructed",
                                             !.specific_log_keys = keys]]
            /\ root_dir' = (IF root_dir = None THEN TmpExportDir ELSE root_dir)
       ELSE /\ cap' = [cap EXCEPT ![h] = [NotCreated EXCEPT !.state = "raised"]]
            /\ root_dir' = root_dir
    /\ UNCHANGED <<GET_DTRACE_STRUCTURED, handlers, scope_trace>>
    /\ UNCHANGED draftExportVars

\* An __enter__ that does not save the flag it finds.
CapEnter_no_save(h) ==
    /\ cap[h].state = "constructed"
    /\ cap' = [cap EXCEPT ![h].state = "active",
                          ![h].logs = <<>>,
                          ![h].heard = <<>>,
                          ![h].flag_at_enter = GET_DTRACE_STRUCTURED]
    /\ handlers' = handlers \cup {h}
    /\ GET_DTRACE_STRUCTURED' = TRUE
    /\ scope_trace' = Append(scope_trace, <<"enter", h>>)
    /\ UNCHANGED root_dir
    /\ UNCHANGED draftExportVars

\* CaptureStructuredTrace.__enter__
CapEnter(h) ==
    /\ cap[h].state = "constructed"
    /\ cap' = [cap EXCEPT ![h].state = "active",
                          ![h].logs = <<>>,
                          ![h].prev_get_dtrace = GET_DTRACE_STRUCTURED,
                          ![h].heard = <<>>,
                          ![h].flag_at_enter = GET_DTRACE_STRUCTURED]
    /\ handlers' = handlers \cup {h}
    /\ GET_DTRACE_STRUCTURED' = TRUE
    /\ scope_trace' = Append(scope_trace, <<"enter", h>>)
    /\ UNCHANGED root_dir
    /\ UNCHANGED draftExportVars

\* An __exit__ that switches the flag off instead of restoring it.
CapExit_flag_off(h) ==
    /\ cap[h].state = "active"
    /\ cap' = [cap EXCEPT ![h].state = "ended",
                          ![h].logs = <<>>,
                          ![h].prev_get_dtrace = FALSE,
                          ![h].heard = <<>>]
    /\ handlers' = handlers \ {h}
    /\ GET_DTRACE_STRUCTURED' = FALSE
    /\ scope_trace' = Append(scope_trace, <<"exit", h>>)
    /\ UNCHANGED root_dir
    /\ UNCHANGED draftExportVars

\* CaptureStructuredTrace.__exit__
CapExit(h) ==
    /\ cap[h].state = "active"
    /\ cap' = [cap EXCEPT ![h].state = "ended",
                          ![h].logs = <<>>,
                          ![h].prev_get_dtrace = FALSE,
                          ![h].heard = <<>>]
    /\ handlers' = handlers \ {h}
    /\ GET_DTRACE_STRUCTURED' = cap[h].prev_get_dtrace
    /\ scope_trace' = Append(scope_trace, <<"exit", h>>)
    /\ UNCHANGED root_dir
    /\ UNCHANGED draftExportVars

\* The trace logger hands one record to every registered capture handler:
\* CaptureStructuredTrace.emit on each.
CapEmit(metadata) ==
    /\ handlers \cap Handles # {}
    /\ \A h \in handlers \cap Handles : Len(cap[h].heard) < MaxLogs
    /\ cap' = [h \in Handles |->
                  IF h \in handlers
                  THEN [cap[h] EXCEPT
                          !.logs = emit(cap[h].specific_log_keys, @, metadata),
                          !.heard = Append(@, metadata)]
                  ELSE cap[h]]
    /\ UNCHANGED <<GET_DTRACE_STRUCTURED, handlers, root_dir, scope_trace>>
    /\ UNCHANGED draftExportVars

NextCapture ==
    \/ \E h \in Handles, keys \in AllowLists : CapConstruct(h, keys)
    \/ \E h \in Handles : CapEnter(h)
    \/ \E h \in Handles : CapExit(h)
    \/ \E metadata \in ChannelMetadata : CapEmit(metadata)

SpecCapture == InitCapture /\ [][NextCapture]_vars

\* ------------------------------------------ rendering and fixing a report

\* get_loc returns None.
NoLine == [path |-> "None", lineno |-> 0]

\* line.strip() of line `lineno` of the file: the text is named by where it
\* stands.
SourceLine(path, lineno) == [path |-> path, lineno |-> lineno]

\* get_loc(filename, lineno): the line when the file has it, None when the
\* file ends before it or open() raises FileNotFoundError; any other error of
\* open() is not caught.
get_loc(filename, lineno) ==
    CASE files[filename] = "readable" ->
             [exc |-> None, value |-> SourceLine(filename, lineno)]
      [] files[filename] = "short" -> [exc |-> None, value |-> NoLine]
      [] files[filename] = "missing" -> [exc |-> None, value |-> NoLine]
      [] OTHER -> [exc |-> "PermissionError", value |-> NoLine]

\* prettify_stack: one line per frame whose filename is a key of the table;
\* the other frames are skipped.
prettify_stack(stack) ==
    LET kept == SelectSeq(stack, LAMBDA frame : frame.filename \in DOMAIN str_to_filename)
    IN [i \in 1..Len(kept) |->
            [file |-> str_to_filename[kept[i].filename],
             lineno |-> kept[i].line,
             name |-> kept[i].name]]

\* f"`{...}`" or "": the text between backticks, `None` included; the f-string
\* is never empty, so the `or` never applies.
Backticks(value) == [backticks |-> TRUE, value |-> value]

\* loc = None, printed as None.
NoLoc == [backticks |-> FALSE, value |-> NoLine]

NoText == [title |-> "None"]

\* FailureReport.print: the text of one record by the fields the template
\* takes, or the exception it raises.
FailureReport_print(failure) ==
    CASE failure.failure_type = MISSING_FAKE_KERNEL ->
             [exc |-> None,
              text |-> [title |-> "Missing fake kernel.", op |-> failure.data.op]]
      [] failure.failure_type = CONSTRAINT_VIOLATION_ERROR ->
             [exc |-> None,
              text |-> [title |-> "Constraint violation error.",
                        expr |-> failure.data.expr,
                        symbol_to_sources |-> failure.data.symbol_to_sources,
                        stack |-> prettify_stack(failure.data.stack),
                        new_dynamic_shapes |-> failure.data.new_dynamic_shapes]]
      [] failure.failure_type = DATA_DEPENDENT_ERROR ->
             LET stack == failure.data.stack
                 Text(loc) == [title |-> "Data dependent error.",
                               expr |-> failure.data.expr,
                               occurrences |-> failure.data.occurrences,
                               stack |-> prettify_stack(stack),
                               loc |-> loc,
                               result |-> failure.data.result]
             IN IF stack = <<>>
                THEN [exc |-> None, text |-> Text(NoLoc)]
                ELSE LET frame == stack[Len(stack)]
                     IN IF frame.filename \notin DOMAIN str_to_filename
                        THEN [exc |-> "KeyError", text |-> NoText]
                        ELSE LET got == get_loc(str_to_filename[frame.filename],
                                                frame.line)
                             IN IF got.exc # None
                                THEN [exc |-> got.exc, text |-> NoText]
                                ELSE [exc |-> None, text |-> Text(Backticks(got.value))]
      [] failure.failure_type = MISMATCHED_FAKE_KERNEL ->
             [exc |-> None,
              text |-> [title |-> "Mismatched fake kernel.",
                        op |-> failure.data.op,
                        reason |-> failure.data.reason]]
      [] OTHER -> [exc |-> "ValueError", text |-> NoText]

\* DraftExportReport.__str__: the success banner, or the warning banner with
\* len(failures) and one numbered block per record; an exception of print goes
\* on to the caller.
DraftExportReport_str(fs) ==
    IF successful(fs)
    THEN [exc |-> None, banner |-> "success", count |-> 0, blocks |-> <<>>]
    ELSE LET prints == [i \in 1..Len(fs) |-> FailureReport_print(fs[i])]
             raising == {i \in 1..Len(fs) : prints[i].exc # None}
         IN IF raising # {}
            THEN [exc |-> prints[CHOOSE i \in raising : \A k \in raising : i <= k].exc,
                  banner |-> "None", count |-> 0, blocks |-> <<>>]
            ELSE [exc |-> None, banner |-> "warning", count |-> Len(fs),
                  blocks |-> [i \in 1..Len(fs) |->
                                 [number |-> (i - 1) + 1, body |-> prints[i].text]]]

\* What a call of a method of the report leaves alone.
reportFrame ==
    <<GET_DTRACE_STRUCTURED, handlers, root_dir, logs, prev_get_dtrace, pc,
      new_shapes, calls, ep, idx, custom_ops_logs, data_dependent_logs, report,
      exc, summary, flag_at_enter, emitted, ep_report, cap, scope_trace, files,
      elsewhereVars>>

\* The caller evaluates str(report).
CallStr ==
    /\ pc = "returned"
    /\ LET out == DraftExportReport_str(failures)
       IN called' = [method |-> "__str__",
                     outcome |-> (IF out.exc = None THEN "returned" ELSE out.exc),
                     output |-> [banner |-> out.banner, count |-> out.count,
                                 blocks |-> out.blocks],
                     before |-> failures]
    /\ UNCHANGED failures
    /\ UNCHANGED reportFrame

\* A stub that does nothing and returns None.
ApplySuggestedFixes_noop ==
    /\ pc = "returned"
    /\ called' = [method |-> "apply_suggested_fixes", outcome |-> "returned",
                  output |-> NoOutput, before |-> failures]
    /\ UNCHANGED failures
    /\ UNCHANGED reportFrame

\* The caller calls report.apply_suggested_fixes(): raise NotImplementedError.
ApplySuggestedFixes ==
    /\ pc = "returned"
    /\ called' = [method |-> "apply_suggested_fixes", outcome |-> "NotImplementedError",
                  output |-> NoOutput, before |-> failures]
    /\ UNCHANGED failures
    /\ UNCHANGED reportFrame

\* The caller sets its xfail marks before it calls a method of the report.
MarkXfail(i, b) == called = NoCall /\ SetXfail(i, b)

\* Captured lists the reports of this part are classified from.
ReportEvents ==
    {<<"propagate_real_tensors", [expr |-> "u0 > 0", result |-> "True", stack |-> StackA]>>,
     <<"guard_added",
       [expr |-> "s0 == 3", symbol_to_sources |-> <<"L['x'].size()[0]">>, stack |-> StackA]>>,
     <<"missing_fake_kernel", [op |-> "mylib::foo"]>>,
     <<"mismatched_fake_kernel", [op |-> "mylib::foo", reason |-> "dtype"]>>}

\* The head of the classifier after a refined retry, for any such list and
\* any state of the user's source file on disk.
InitReport ==
    /\ GET_DTRACE_STRUCTURED = TRUE
    /\ handlers = {"LazyTraceHandler", "CaptureStructuredTrace"}
    /\ root_dir = TmpExportDir
    /\ logs \in SeqsUpTo(ReportEvents, MaxLogs)
    /\ prev_get_dtrace = FALSE
    /\ pc = "classify"
    /\ new_shapes = "{0: 3}"
    /\ calls = <<[dynamic_shapes |-> dynamic_shapes, result |-> "UserError"],
                 [dynamic_shapes |-> new_shapes, result |-> "returned"]>>
    /\ ep = "ep2"
    /\ idx = 1
    /\ failures = <<>>
    /\ custom_ops_logs = <<>>
    /\ data_dependent_logs = <<>>
    /\ report = FALSE
    /\ exc = NoException
    /\ summary = None
    /\ flag_at_enter = FALSE
    /\ emitted = logs
    /\ ep_report = None
    /\ cap = [h \in Handles |-> NotCreated]
    /\ scope_trace = <<>>
    /\ \E st \in FileStates :
          files = [p \in Paths |-> IF p = "/home/user/model.py" THEN st ELSE "readable"]
    /\ called = NoCall
    /\ ElsewhereIdle

NextReport ==
    \/ ClassifyEvent
    \/ CountOccurrences
    \/ Exit
    \/ Return
    \/ \E i \in 1..MaxLogs, b \in BOOLEAN : MarkXfail(i, b)
    \/ CallStr
    \/ ApplySuggestedFixes

SpecReport == InitReport /\ [][NextReport]_vars

\* ----------------------------------------------------------------- claims

\* The number of captured events the classifier's loop has gone through.
Seen == IF idx = 0 THEN 0 ELSE idx - 1

\* The positions, among the events gone through, of the events with a key.
EventsOf(key) == {i \in 1..Seen : emitted[i][1] = key}

\* The positions in the record list of the records of a kind.
RecordsOf(type) == {j \in 1..Len(failures) : failures[j].failure_type = type}

\* The dedup key of a data-dependent event as the specification words it: the
\* (line, filename) pairs of its filtered stack, in order.
LineFilePairs(stack) ==
    [i \in 1..Len(stack) |-> <<stack[i].line, stack[i].filename.id>>]

DedupKey(i) == LineFilePairs(filter_stack(emitted[i][2].stack))

\* The least element of a non-empty set of positions.
Least(S) == CHOOSE i \in S : \A h \in S : i <= h

\* C1: successful() is true if and only if the record list is empty or every
\* record is suppressed, whatever events produced the report and whatever
\* xfail flags the caller set afterwards.
C1_SuccessfulIffAllSuppressed ==
    successful(failures) <=>
        (failures = <<>> \/ Cardinality({j \in 1..Len(failures) : ~failures[j].xfail}) = 0)

\* A returned report with two records, both suppressed by the caller, is
\* successful.
C1_Witness ==
    /\ pc = "returned"
    /\ Len(failures) = 2
    /\ failures[1].xfail /\ failures[2].xfail
    /\ successful(failures)

\* C2: there is exactly one DATA_DEPENDENT_ERROR record per distinct dedup key
\* among the propagate_real_tensors events gone through; it carries expr and
\* result of the first event with that key, and once the counting pass has run
\* its occurrences field is the number of events with that key.
C2_DataDependentDedup ==
    LET P == EventsOf("propagate_real_tensors")
        D == RecordsOf(DATA_DEPENDENT_ERROR)
        Keys == {DedupKey(i) : i \in P}
        First(k) == Least({i \in P : DedupKey(i) = k})
    IN /\ Cardinality(D) = Cardinality(Keys)
       /\ \A k \in Keys : \E j \in D :
             /\ LineFilePairs(failures[j].data.stack) = k
             /\ failures[j].src = First(k)
             /\ failures[j].data.expr = emitted[First(k)][2].expr
             /\ failures[j].data.result = emitted[First(k)][2].result
             /\ report =>
                   failures[j].data.occurrences =
                       Cardinality({i \in P : DedupKey(i) = k})

\* Two events with the same key and different payloads were captured, and the
\* returned report has one record, with the first payload and occurrences = 2.
C2_Witness ==
    /\ pc = "returned"
    /\ Len(emitted) = 2
    /\ emitted[1][1] = "propagate_real_tensors"
    /\ emitted[2][1] = "propagate_real_tensors"
    /\ emitted[1][2].expr # emitted[2][2].expr
    /\ emitted[1][2].stack # emitted[2][2].stack
    /\ Len(failures) = 1
    /\ failures[1].data.expr = emitted[1][2].expr
    /\ failures[1].data.occurrences = 2

\* C3: there is exactly one MISSING_FAKE_KERNEL record per distinct operator
\* among the missing_fake_kernel events gone through, built from the first
\* event of that operator; later events of the operator add no record and no
\* count.
C3_MissingKernelDedup ==
    LET M == EventsOf("missing_fake_kernel")
        R == RecordsOf(MISSING_FAKE_KERNEL)
        OpsSeen == {emitted[i][2].op : i \in M}
        First(o) == Least({i \in M : emitted[i][2].op = o})
    IN /\ Cardinality(R) = Cardinality(OpsSeen)
       /\ \A o \in OpsSeen : \E j \in R :
             /\ failures[j].data.op = o
             /\ failures[j].src = First(o)
       /\ \A j \in R : DOMAIN failures[j].data = {"op"}

\* Three missing_fake_kernel events, the third for the operator of the first,
\* end in a returned report of two records.
C3_Witness ==
    /\ pc = "returned"
    /\ Len(emitted) = 3
    /\ \A i \in 1..3 : emitted[i][1] = "missing_fake_kernel"
    /\ emitted[1][2].op = emitted[3][2].op
    /\ emitted[1][2].op # emitted[2][2].op
    /\ Len(failures) = 2

\* C4: there is exactly one MISMATCHED_FAKE_KERNEL record per distinct
\* (operator, reason) pair among the mismatched_fake_kernel events gone
\* through: the same operator with two reasons gives two records, the same
\* operator with the same reason gives one.
C4_MismatchedKernelDedup ==
    LET M == EventsOf("mismatched_fake_kernel")
        R == RecordsOf(MISMATCHED_FAKE_KERNEL)
        Pair(c) == <<c.op, c.reason>>
        Pairs == {Pair(emitted[i][2]) : i \in M}
        First(q) == Least({i \in M : Pair(emitted[i][2]) = q})
    IN /\ Cardinality(R) = Cardinality(Pairs)
       /\ \A q \in Pairs : \E j \in R :
             /\ Pair(failures[j].data) = q
             /\ failures[j].src = First(q)

\* Three mismatched_fake_kernel events of one operator, the reasons being
\* r, r', r, end in a returned report of two records.
C4_Witness ==
    /\ pc = "returned"
    /\ Len(emitted) = 3
    /\ \A i \in 1..3 : emitted[i][1] = "mismatched_fake_kernel"
    /\ emitted[1][2].op = emitted[2][2].op
    /\ emitted[1][2].reason # emitted[2][2].reason
    /\ emitted[3][2] = emitted[1][2]
    /\ Len(failures) = 2
    /\ failures[1].data.reason # failures[2].data.reason

\* C5: a guard_added event gives no record when no refinement happened
\* (new_shapes is None) and none when its symbol_to_sources is empty; the
\* events after it are still classified.
C5_GuardDropped ==
    LET G == EventsOf("guard_added")
        Dropped(i) ==
            new_shapes = None \/ Len(emitted[i][2].symbol_to_sources) = 0
    IN /\ \A i \in G : Dropped(i) => \A j \in 1..Len(failures) : failures[j].src # i
       /\ new_shapes = None => RecordsOf(CONSTRAINT_VIOLATION_ERROR) = {}
       /\ \A j \in RecordsOf(CONSTRAINT_VIOLATION_ERROR) :
             Len(failures[j].data.symbol_to_sources) > 0
       /\ \A i \in G, k \in EventsOf("missing_fake_kernel") :
             (Dropped(i) /\ i < k) =>
                 \E j \in RecordsOf(MISSING_FAKE_KERNEL) :
                     failures[j].data.op = emitted[k][2].op
       /\ report => Seen = Len(emitted)

\* After a refined retry, a guard_added event without sources followed by a
\* missing_fake_kernel event: the report holds the kernel record alone.
C5_Witness ==
    /\ pc = "returned"
    /\ new_shapes # None
    /\ Len(emitted) = 2
    /\ emitted[1][1] = "guard_added"
    /\ Len(emitted[1][2].symbol_to_sources) = 0
    /\ emitted[2][1] = "missing_fake_kernel"
    /\ Len(failures) = 1
    /\ failures[1].failure_type = MISSING_FAKE_KERNEL

\* C6: when the first attempt raised UserError and the retry ran, every
\* guard_added event gone through that has sources has one
\* CONSTRAINT_VIOLATION_ERROR record of its own, whose new_dynamic_shapes is
\* the shape spec the retry was called with.
C6_ConstraintViolationPayload ==
    (Len(calls) = 2 /\ calls[1].result = "UserError") =>
        LET G == {i \in EventsOf("guard_added") :
                     Len(emitted[i][2].symbol_to_sources) > 0}
            R == RecordsOf(CONSTRAINT_VIOLATION_ERROR)
        IN /\ Cardinality(R) = Cardinality(G)
           /\ \A i \in G : \E j \in R :
                 /\ failures[j].src = i
                 /\ failures[j].data.expr = emitted[i][2].expr
                 /\ failures[j].data.symbol_to_sources = emitted[i][2].symbol_to_sources
           /\ \A j \in R :
                 failures[j].data.new_dynamic_shapes = calls[2].dynamic_shapes

\* The run of the example: the first attempt raised UserError, the retry
\* returned, one guard_added event with sources was captured, and the report
\* holds one CONSTRAINT_VIOLATION_ERROR record with the refined shapes.
C6_Witness ==
    /\ pc = "returned"
    /\ calls[1].result = "UserError"
    /\ Len(emitted) = 1
    /\ emitted[1][1] = "guard_added"
    /\ Len(failures) = 1
    /\ failures[1].failure_type = CONSTRAINT_VIOLATION_ERROR
    /\ failures[1].data.new_dynamic_shapes = "{0: Dim.AUTO}"
    /\ calls[2].dynamic_shapes = "{0: Dim.AUTO}"

\* The keys the classifier's if / elif chain names.
ClassifierKeys ==
    {"propagate_real_tensors", "guard_added", "missing_fake_kernel",
     "mismatched_fake_kernel"}

\* C7: the classifier never goes past an event with an unknown key: it raises
\* RuntimeError at that event, and a run whose captured list holds such an
\* event builds no report and does not return.
C7_UnknownKeyRaises ==
    LET U == {i \in 1..Len(emitted) : emitted[i][1] \notin ClassifierKeys}
    IN /\ \A i \in U : Seen < i
       /\ U # {} => ~report /\ pc \notin {"attach", "returned"}
       /\ exc.origin = "classifier" =>
             /\ exc.type = "RuntimeError"
             /\ idx = Least(U)
       /\ (pc \in {"exit", "raised"} /\ U # {}) => exc.origin = "classifier"

\* The second of three captured events has an unknown key: RuntimeError reached
\* the caller, with one record built and the third event never looked at.
C7_Witness ==
    /\ pc = "raised"
    /\ exc.type = "RuntimeError"
    /\ exc.origin = "classifier"
    /\ Len(emitted) = 3
    /\ idx = 2
    /\ Len(failures) = 1
    /\ ~report

\* C8: once the capture scope of a draft_export call has ended, by normal
\* completion or by an exception, GET_DTRACE_STRUCTURED has the value it had
\* just before the scope was entered and the capture handler is off the trace
\* logger.
C8_ScopeRestores ==
    pc \in {"attach", "returned", "raised"} =>
        /\ GET_DTRACE_STRUCTURED = flag_at_enter
        /\ "CaptureStructuredTrace" \notin handlers

\* The instrumented operation raised inside a scope entered with the flag
\* off, events having been captured with the flag on, and the exception
\* reached the caller with the flag off again.
C8_Witness ==
    /\ pc = "raised"
    /\ exc.origin = "_export"
    /\ Len(emitted) > 0
    /\ flag_at_enter = FALSE
    /\ GET_DTRACE_STRUCTURED = FALSE
    /\ "CaptureStructuredTrace" \notin handlers

\* C9: _export is called once when the first attempt returns and twice when it
\* raises UserError, the second time with the refined shapes, and never a
\* third time; draft_export follows NotStarted -> FirstAttempt ->
\* {Succeeded, Retrying} -> {Succeeded, Failed}.
C9_AtMostOneRetry ==
    /\ Len(calls) <= 2
    /\ pc \in {"NotStarted", "constructed"} => calls = <<>>
    /\ pc = "first_attempt" => Len(calls) = 1 /\ calls[1].result = "running"
    /\ pc = "retry_attempt" => Len(calls) = 2 /\ calls[2].result = "running"
    /\ Len(calls) >= 1 =>
          /\ calls[1].dynamic_shapes = dynamic_shapes
          /\ calls[1].result = "returned" => Len(calls) = 1
          /\ calls[1].result = "UserError" <=> Len(calls) = 2
    /\ Len(calls) = 2 =>
          /\ new_shapes # None
          /\ calls[2].dynamic_shapes = new_shapes
    /\ pc \in {"exported", "classify", "attach", "returned"} =>
          calls[Len(calls)].result = "returned"
    /\ (pc = "raised" /\ exc.origin = "_export") =>
          calls[Len(calls)].result = exc.type

\* The retry raised UserError as well: the error reached the caller after
\* two calls.
C9_Witness ==
    /\ pc = "raised"
    /\ Len(calls) = 2
    /\ calls[1].result = "UserError"
    /\ calls[2].result = "UserError"

\* C10 as the specification states it: an exception of _export that reaches
\* the caller of draft_export was raised by the second attempt.
C10_OnlySecondAttemptPropagates ==
    (pc = "raised" /\ exc.origin = "_export") => exc.attempt = 2

\* C10, amended: an exception of the second attempt always reaches the caller;
\* one of the first attempt reaches the caller exactly when it is no
\* UserError (a UserError of the first attempt is caught and starts the retry).
C10_FirstAttemptUserErrorCaught ==
    /\ (pc = "raised" /\ exc.origin = "_export") =>
          /\ exc.attempt = Len(calls)
          /\ calls[exc.attempt].result = exc.type
          /\ exc.attempt = 1 => exc.type # "UserError"
    /\ (Len(calls) >= 1 /\ calls[1].result \notin {"running", "returned", "UserError"}) =>
          /\ pc \in {"exit", "raised"}
          /\ exc = [type |-> calls[1].result, origin |-> "_export", attempt |-> 1]
    /\ (Len(calls) = 2 /\ calls[2].result \notin {"running", "returned"}) =>
          /\ pc \in {"exit", "raised"}
          /\ exc = [type |-> calls[2].result, origin |-> "_export", attempt |-> 2]

\* The first attempt raised UserError, which the caller never saw; the retry
\* raised and its exception reached the caller.
C10_Witness ==
    /\ pc = "raised"
    /\ exc.origin = "_export"
    /\ exc.attempt = 2
    /\ exc.type = "RuntimeError"
    /\ calls[1].result = "UserError"

\* The positions of draft_export between __enter__ and __exit__ of its capture
\* scope.
InScope == pc \in {"first_attempt", "retry_attempt", "exported", "classify", "exit"}

KeysOf(ls) == [i \in 1..Len(ls) |-> ls[i][1]]

\* C11: the first attempt, the retry and the classification all run inside one
\* capture scope.  From __enter__ to __exit__ the handler stays registered and
\* the flag stays on; during both attempts and up to the classifier the
\* captured list is everything stored since __enter__, the events of a failed
\* first attempt included, and the classifier's loop goes through that whole
\* list; the report is built while the scope is still open.
C11_OneScopeForBothAttempts ==
    /\ InScope <=> "CaptureStructuredTrace" \in handlers
    /\ InScope => GET_DTRACE_STRUCTURED
    /\ pc \in {"first_attempt", "retry_attempt", "exported"} => logs = emitted
    /\ pc = "classify" => KeysOf(logs) = KeysOf(emitted)
    /\ report => idx = Len(emitted) + 1
    /\ (pc = "exit" /\ exc = NoException) => report
    /\ pc \in {"attach", "returned"} => report
    /\ report => pc \in {"exit", "attach", "returned"}

\* A run whose first attempt stored a guard and then raised UserError, whose
\* retry stored a data-dependent expression, and whose report holds a record
\* for each of the two.
C11_Witness ==
    /\ pc = "returned"
    /\ Len(calls) = 2
    /\ calls[1].result = "UserError"
    /\ Len(emitted) = 2
    /\ emitted[1][1] = "guard_added"
    /\ emitted[2][1] = "propagate_real_tensors"
    /\ Len(failures) = 2
    /\ failures[1].failure_type = CONSTRAINT_VIOLATION_ERROR
    /\ failures[1].src = 1
    /\ failures[2].failure_type = DATA_DEPENDENT_ERROR
    /\ failures[2].src = 2

\* The kind of record the classifier builds for a key.
KindOf(key) ==
    CASE key = "missing_fake_kernel" -> MISSING_FAKE_KERNEL
      [] key = "propagate_real_tensors" -> DATA_DEPENDENT_ERROR
      [] key = "guard_added" -> CONSTRAINT_VIOLATION_ERROR
      [] key = "mismatched_fake_kernel" -> MISMATCHED_FAKE_KERNEL
      [] OTHER -> 0

\* Events i and k count as the same issue: same key and same dedup key.  Guards
\* are never merged.
SameIssue(i, k) ==
    /\ emitted[i][1] = emitted[k][1]
    /\ CASE emitted[i][1] = "propagate_real_tensors" -> DedupKey(i) = DedupKey(k)
         [] emitted[i][1] = "missing_fake_kernel" -> emitted[i][2].op = emitted[k][2].op
         [] emitted[i][1] = "mismatched_fake_kernel" ->
                /\ emitted[i][2].op = emitted[k][2].op
                /\ emitted[i][2].reason = emitted[k][2].reason
         [] OTHER -> FALSE

\* C12: the records are in first-occurrence order across all kinds.  Every
\* record stems from one captured event of its kind, that event is the first of
\* its issue, and the events of the records increase along the list, at every
\* point of the loop and after the counting pass.
C12_FirstOccurrenceOrder ==
    /\ \A j \in 1..Len(failures) :
          /\ failures[j].src \in 1..Seen
          /\ failures[j].failure_type = KindOf(emitted[failures[j].src][1])
          /\ \A i \in 1..(failures[j].src - 1) : ~SameIssue(i, failures[j].src)
    /\ \A j, k \in 1..Len(failures) : j < k => failures[j].src < failures[k].src

\* A mismatched kernel, then a data-dependent expression, then a missing
\* kernel: the report lists them in that order, which is not the order of the
\* kinds' numbers.
C12_Witness ==
    /\ pc = "returned"
    /\ Len(emitted) = 3
    /\ emitted[1][1] = "mismatched_fake_kernel"
    /\ emitted[2][1] = "propagate_real_tensors"
    /\ emitted[3][1] = "missing_fake_kernel"
    /\ Len(failures) = 3
    /\ failures[1].failure_type = MISMATCHED_FAKE_KERNEL
    /\ failures[2].failure_type = DATA_DEPENDENT_ERROR
    /\ failures[3].failure_type = MISSING_FAKE_KERNEL

\* The members of an allow-list.
Allowed(keys) == {keys[i] : i \in 1..Len(keys)}

\* The records of a sequence whose event key is in K, each as the (key,
\* payload) pair, in the order of the sequence.
RECURSIVE StoredOf(_, _)
StoredOf(records, K) ==
    IF records = <<>> THEN <<>>
    ELSE LET m == Head(records)
             k == EventKey(m)
         IN IF k \in K
            THEN <<(<<k, m[k]>>)>> \o StoredOf(Tail(records), K)
            ELSE StoredOf(Tail(records), K)

\* C13: while a capture scope is active its handler is registered and its log
\* list is exactly the records handed to the logger since __enter__ whose event
\* key is in the allow-list, as (key, payload) pairs in emission order; no
\* stored entry has a key outside the allow-list.
C13_LogsAreAllowedSubsequence ==
    \A h \in Handles :
        cap[h].state = "active" =>
            /\ h \in handlers
            /\ cap[h].logs = StoredOf(cap[h].heard, Allowed(cap[h].specific_log_keys))
            /\ \A i \in 1..Len(cap[h].logs) :
                   cap[h].logs[i][1] \in Allowed(cap[h].specific_log_keys)

\* A handler constructed for missing_fake_kernel alone was handed a guard, a
\* missing kernel and a dynamo_start record, and stored the second only.
C13_Witness ==
    \E h \in Handles :
        /\ cap[h].state = "active"
        /\ cap[h].specific_log_keys = <<"missing_fake_kernel">>
        /\ Len(cap[h].heard) = 3
        /\ EventKey(cap[h].heard[1]) = "guard_added"
        /\ EventKey(cap[h].heard[2]) = "missing_fake_kernel"
        /\ EventKey(cap[h].heard[3]) = "dynamo_start"
        /\ cap[h].logs = <<(<<"missing_fake_kernel", [op |-> "mylib::foo"]>>)>>

\* C14: the classifier never marks a record suppressed.  Until draft_export
\* has returned every record has xfail = FALSE, so the report it is about to
\* return is successful exactly when it has no record, and the closing summary
\* chosen at the return is the success one exactly when the list is empty.
C14_NoRecordSuppressedAtReturn ==
    /\ pc # "returned" => \A j \in 1..Len(failures) : ~failures[j].xfail
    /\ pc = "attach" => (successful(failures) <=> failures = <<>>)
    /\ pc = "returned" => (summary = "info" <=> failures = <<>>)

\* One missing_fake_kernel event: the returned report has one record, not
\* suppressed, successful() is false and the warning summary was logged.
C14_Witness ==
    /\ pc = "returned"
    /\ summary = "warning"
    /\ Len(emitted) = 1
    /\ emitted[1][1] = "missing_fake_kernel"
    /\ Len(failures) = 1
    /\ failures[1].failure_type = MISSING_FAKE_KERNEL
    /\ ~failures[1].xfail
    /\ ~successful(failures)

\* The last call of _export returned a program.
LastAttemptReturned ==
    Len(calls) > 0 /\ calls[Len(calls)].result = "returned"

\* C15: diagnostic failures never abort draft_export.  Once the last _export
\* has returned a program (every key draft_export captures is one the
\* classifier knows) no exception is in flight or raised, each further step up
\* to the return is enabled, and the state after the return has the report
\* built, attached to the program as _report, and the program of the last
\* attempt returned, whatever the number of records.
C15_DiagnosticsNeverAbort ==
    /\ LastAttemptReturned =>
          /\ exc = NoException
          /\ pc \in {"exported", "classify", "exit", "attach", "returned"}
          /\ pc = "exported" => ENABLED BeginClassify
          /\ pc = "classify" => ENABLED (ClassifyEvent \/ CountOccurrences)
          /\ pc = "exit" => ENABLED Exit
          /\ pc = "attach" => ENABLED Return
    /\ pc = "raised" => ~LastAttemptReturned
    /\ pc = "returned" =>
          /\ LastAttemptReturned
          /\ report
          /\ ep_report = "report"
          /\ ep = (IF Len(calls) = 1 THEN "ep1" ELSE "ep2")
    /\ pc # "returned" => ep_report = None

\* draft_export has returned the retry's program with a report of three
\* unsuppressed records attached.
C15_Witness ==
    /\ pc = "returned"
    /\ Len(failures) = 3
    /\ \A j \in 1..3 : ~failures[j].xfail
    /\ ~successful(failures)
    /\ ep = "ep2"
    /\ ep_report = "report"

\* C16: str(report) gives the success banner when the report is successful (an
\* empty report in particular); otherwise it gives the warning banner with a
\* count equal to the number of records, followed by exactly one block per
\* record, numbered 1..n in the order of the records.
C16_RenderingBannerAndBlocks ==
    called.method = "__str__" =>
        /\ called.outcome = "returned"
        /\ IF successful(called.before)
           THEN called.output.banner = "success"
           ELSE /\ called.output.banner = "warning"
                /\ called.output.count = Len(called.before)
                /\ Len(called.output.blocks) = Len(called.before)
                /\ \A i \in 1..Len(called.before) :
                      /\ called.output.blocks[i].number = i
                      /\ called.output.blocks[i].body =
                             FailureReport_print(called.before[i]).text

\* The last frame of a DATA_DEPENDENT_ERROR record, when it has one.
LastFrameFile(failure) ==
    str_to_filename[failure.data.stack[Len(failure.data.stack)].filename]

\* C17: rendering never fails because of where a frame points.  str(report)
\* returns; the frames shown are resolved through the filename table; and a
\* DATA_DEPENDENT_ERROR record whose last frame's file cannot be read is
\* rendered with no source line.
C17_RenderingNeverFailsOnFrames ==
    called.method = "__str__" =>
        /\ called.outcome = "returned"
        /\ \A i \in 1..Len(called.output.blocks) :
              LET failure == called.before[i]
                  body == called.output.blocks[i].body
              IN failure.failure_type = DATA_DEPENDENT_ERROR =>
                    /\ \A k \in 1..Len(body.stack) : body.stack[k].file \in Paths
                    /\ (failure.data.stack # <<>>
                          /\ files[LastFrameFile(failure)] # "readable")
                         => body.loc.value = NoLine

\* C18: apply_suggested_fixes() on a report in any state raises
\* NotImplementedError, never returns normally, and leaves the records as they
\* were.
C18_ApplySuggestedFixesRaises ==
    called.method = "apply_suggested_fixes" =>
        /\ called.outcome = "NotImplementedError"
        /\ failures = called.before

\* The call was made on a report of two records, the first suppressed.
C18_Witness ==
    /\ called.method = "apply_suggested_fixes"
    /\ called.outcome = "NotImplementedError"
    /\ Len(failures) = 2
    /\ failures[1].xfail
    /\ ~failures[2].xfail

\* C19: capture is not safe for two overlapping runs.  When two capture
\* objects overlap without nesting (a enters, b enters, a exits, b exits), the
\* exit of a sets the flag to what a found at its __enter__, the value before
\* either began, while b is still active; the exit of b then sets it to what b
\* found, which is TRUE.  With the flag off beforehand it is off while b is
\* active and on after both have ended.
C19_OverlapBreaksFlag ==
    \A a, b \in Handles :
        a # b =>
          /\ scope_trace = <<(<<"enter", a>>), <<"enter", b>>, <<"exit", a>>>> =>
                /\ cap[b].state = "active"
                /\ b \in handlers
                /\ GET_DTRACE_STRUCTURED = cap[a].flag_at_enter
          /\ scope_trace = <<(<<"enter", a>>), <<"enter", b>>, <<"exit", a>>,
                              <<"exit", b>>>> =>
                /\ cap[a].state = "ended" /\ cap[b].state = "ended"
                /\ GET_DTRACE_STRUCTURED = TRUE

\* A began with the flag off, B began, A ended, B ended: the flag is left on.
C19_Witness ==
    /\ scope_trace = <<(<<"enter", "A">>), <<"enter", "B">>, <<"exit", "A">>,
                        <<"exit", "B">>>>
    /\ cap["A"].flag_at_enter = FALSE
    /\ cap["A"].state = "ended"
    /\ cap["B"].state = "ended"
    /\ GET_DTRACE_STRUCTURED = TRUE

\* draft_export's __init__ raised for want of a lazy trace handler: nothing was
\* registered, the flag is what it was, no _export was called.
C20_AfterRaise ==
    (pc = "raised" /\ exc.origin = "__init__") =>
        /\ exc.type = "StopIteration"
        /\ "LazyTraceHandler" \notin handlers
        /\ "CaptureStructuredTrace" \notin handlers
        /\ GET_DTRACE_STRUCTURED = flag_at_enter
        /\ calls = <<>>
        /\ ep = None

\* The step that constructs the handle.
C20_ConstructStep ==
    pc = "NotStarted" /\ pc' # "NotStarted" =>
        IF "LazyTraceHandler" \in handlers
        THEN /\ pc' = "constructed"
             /\ root_dir' = (IF root_dir = None THEN TmpExportDir ELSE root_dir)
        ELSE /\ pc' = "raised"
             /\ root_dir' = root_dir
             /\ handlers' = handlers
             /\ GET_DTRACE_STRUCTURED' = GET_DTRACE_STRUCTURED

\* C20: creating the capture handle when the trace logger has no lazy trace
\* handler raises, and then no listener is registered, the flag is unchanged
\* and no export attempt is made, in that step and ever after; when the handler
\* exists, the step sets root_dir to the per-user temporary path if it was
\* None and leaves it unchanged otherwise.
C20_ConstructRaisesOrSetsRootDir ==
    /\ [](C20_AfterRaise
           /\ ("LazyTraceHandler" \notin handlers => pc \in {"NotStarted", "raised"}))
    /\ [][C20_ConstructStep]_vars

\* The handle could not be created: StopIteration, no listener, no attempt.
C20_Witness ==
    /\ pc = "raised"
    /\ exc.type = "StopIteration"
    /\ exc.origin = "__init__"
    /\ handlers = {}
    /\ calls = <<>>

\* C28: the dedup of the kernel failures is per kind.  For every
\* missing_fake_kernel event gone through there is a MISSING_FAKE_KERNEL record
\* of its operator, and for every mismatched_fake_kernel event gone through
\* there is a MISMATCHED_FAKE_KERNEL record of its operator and reason,
\* whichever events of the other kind came before it for the same operator.
C28_KernelDedupPerKind ==
    /\ \A i \in EventsOf("missing_fake_kernel") :
          \E j \in RecordsOf(MISSING_FAKE_KERNEL) :
              failures[j].data.op = emitted[i][2].op
    /\ \A i \in EventsOf("mismatched_fake_kernel") :
          \E j \in RecordsOf(MISMATCHED_FAKE_KERNEL) :
              /\ failures[j].data.op = emitted[i][2].op
              /\ failures[j].data.reason = emitted[i][2].reason

\* One operator reported as mismatched, then as missing, then as mismatched
\* for another reason: both orders of the two kinds, three records returned.
C28_Witness ==
    /\ pc = "returned"
    /\ Len(emitted) = 3
    /\ emitted[1][1] = "mismatched_fake_kernel"
    /\ emitted[2][1] = "missing_fake_kernel"
    /\ emitted[3][1] = "mismatched_fake_kernel"
    /\ emitted[2][2].op = emitted[1][2].op
    /\ emitted[3][2].op = emitted[1][2].op
    /\ emitted[3][2].reason # emitted[1][2].reason
    /\ Cardinality(RecordsOf(MISSING_FAKE_KERNEL)) = 1
    /\ Cardinality(RecordsOf(MISMATCHED_FAKE_KERNEL)) = 2

\* The handles whose scope is open after a sequence of __enter__/__exit__
\* calls, innermost last; <<"overlap">> once an __exit__ was not that of the
\* innermost open scope.
RECURSIVE OpenScopes(_)
OpenScopes(trace) ==
    IF trace = <<>> THEN <<>>
    ELSE LET open == OpenScopes(SubSeq(trace, 1, Len(trace) - 1))
             last == trace[Len(trace)]
         IN IF open = <<"overlap">> THEN open
            ELSE IF last[1] = "enter" THEN Append(open, last[2])
            ELSE IF open # <<>> /\ open[Len(open)] = last[2]
                 THEN SubSeq(open, 1, Len(open) - 1)
                 ELSE <<"overlap">>

\* C29: while the capture scopes on distinct handles are properly nested, the
\* flag is TRUE whenever a scope is open, right after the __exit__ of a scope
\* it is what that scope's __enter__ found, and once no scope is open it is
\* what it was before the first __enter__.
C29_NestedScopesRestoreFlag ==
    LET open == OpenScopes(scope_trace)
        n == Len(scope_trace)
    IN open # <<"overlap">> =>
          /\ open # <<>> => GET_DTRACE_STRUCTURED = TRUE
          /\ (n > 0 /\ scope_trace[n][1] = "exit") =>
                GET_DTRACE_STRUCTURED = cap[scope_trace[n][2]].flag_at_enter
          /\ open = <<>> => GET_DTRACE_STRUCTURED = flag_at_enter

\* A began with the flag off, B began and ended inside it, A ended: the flag
\* is off again, and B had found it on.
C29_Witness ==
    /\ scope_trace = <<(<<"enter", "A">>), <<"enter", "B">>, <<"exit", "B">>,
                        <<"exit", "A">>>>
    /\ flag_at_enter = FALSE
    /\ cap["A"].flag_at_enter = FALSE
    /\ cap["B"].flag_at_enter = TRUE
    /\ GET_DTRACE_STRUCTURED = FALSE

\* ------------------------------------------------ filter_stack on any stack

MaxStack == 4

\* Everything draft_export, the capture objects and the report work on.
exportVars ==
    <<GET_DTRACE_STRUCTURED, handlers, root_dir, logs, prev_get_dtrace, pc,
      new_shapes, calls, ep, idx, failures, custom_ops_logs, data_dependent_logs,
      report, exc, summary, flag_at_enter, emitted, ep_report, cap, scope_trace,
      files, called>>

\* A process in which draft_export is not called.
InitElsewhere ==
    /\ Init
    /\ GET_DTRACE_STRUCTURED = FALSE
    /\ handlers = {"LazyTraceHandler"}

\* The filenames a frame of a reported stack can carry: a user file, a file
\* of the torch package, and an id the intern table does not hold.
UninternedId == 9
FrameFiles == {INTERN_TABLE["/home/user/model.py"],
               INTERN_TABLE["/site/torch/nn/functional.py"], UninternedId}

\* The stacks of up to MaxStack frames, outermost first; the line of a frame
\* is its position, so a frame of the result tells where it came from.
FilterStacks ==
    UNION {{[k \in 1..n |-> Frame(f[k], k, "f")] : f \in [1..n -> FrameFiles]} :
              n \in 0..MaxStack}

\* A caller passes a stack to filter_stack.
CallFilterStack ==
    /\ ~fstack.called
    /\ \E stack \in FilterStacks :
          fstack' = [called |-> TRUE, stack |-> stack, result |-> filter_stack(stack)]
    /\ UNCHANGED <<mctx, mlog, rctx, rlog>>
    /\ UNCHANGED exportVars

NextFilter == CallFilterStack

SpecFilter == InitElsewhere /\ [][NextFilter]_vars

\* ------------------------------------------------------- MetricsContext

MaxTrace == 5
MaxCount == 2

\* An __enter__ that starts afresh at every level.
MetricsContext_enter_afresh(self, now) ==
    [self EXCEPT !._metrics = EmptyDict, !._start_time_ns = now, !._level = @ + 1]

\* MetricsContext.__enter__; now is what time.time_ns() returns.
MetricsContext_enter(self, now) ==
    LET s == IF self._level = 0
             THEN [self EXCEPT !._metrics = EmptyDict, !._start_time_ns = now]
             ELSE self
    IN [s EXCEPT !._level = @ + 1]

\* An __exit__ that takes every exit for the outermost one.
MetricsContext_exit_to_zero(self) == [self EXCEPT !._level = 0]

\* MetricsContext.__exit__, up to the assert: self._level -= 1.
MetricsContext_exit(self) == [self EXCEPT !._level = @ - 1]

\* MetricsContext.in_progress
MetricsContext_in_progress(self) == self._level > 0

\* What a mutator leaves behind: the metrics and the exception raised.
Raised(self, e) == [metrics |-> self._metrics, raised |-> e]
Stored(metrics) == [metrics |-> metrics, raised |-> None]

\* An increment that does not look at the level.
MetricsContext_increment_unguarded(self, metric, value) ==
    LET m == IF metric \notin DOMAIN self._metrics
             THEN DictSet(self._metrics, metric, IntValue(0))
             ELSE self._metrics
    IN IF m[metric].kind = "int"
       THEN Stored(DictSet(m, metric, IntValue(m[metric].n + value)))
       ELSE [metrics |-> m, raised |-> "TypeError"]

\* MetricsContext.increment; += on a dict or a set raises TypeError.
MetricsContext_increment(self, metric, value) ==
    IF self._level = 0 THEN Raised(self, "RuntimeError")
    ELSE LET m == IF metric \notin DOMAIN self._metrics
                  THEN DictSet(self._metrics, metric, IntValue(0))
                  ELSE self._metrics
         IN IF m[metric].kind = "int"
            THEN Stored(DictSet(m, metric, IntValue(m[metric].n + value)))
            ELSE [metrics |-> m, raised |-> "TypeError"]

\* A set that overwrites whatever overwrite says.
MetricsContext_set_always_overwrites(self, metric, value, overwrite) ==
    IF self._level = 0 THEN Raised(self, "RuntimeError")
    ELSE Stored(DictSet(self._metrics, metric, value))

\* MetricsContext.set
MetricsContext_set(self, metric, value, overwrite) ==
    IF self._level = 0 THEN Raised(self, "RuntimeError")
    ELSE IF metric \in DOMAIN self._metrics /\ ~overwrite
         THEN Raised(self, "RuntimeError")
         ELSE Stored(DictSet(self._metrics, metric, value))

\* MetricsContext.set_key_value; item assignment on an int or a set raises
\* TypeError.
MetricsContext_set_key_value(self, metric, key, value) ==
    IF self._level = 0 THEN Raised(self, "RuntimeError")
    ELSE LET m == IF metric \notin DOMAIN self._metrics
                  THEN DictSet(self._metrics, metric, DictValue({}))
                  ELSE self._metrics
         IN IF m[metric].kind = "dict"
            THEN Stored(DictSet(m, metric,
                     DictValue({it \in m[metric].items : it[1] # key}
                                   \cup {<<key, value>>})))
            ELSE [metrics |-> m, raised |-> "TypeError"]

\* An update that writes the keys not yet set before it raises.
MetricsContext_update_partial(self, values) ==
    IF self._level = 0 THEN Raised(self, "RuntimeError")
    ELSE IF DOMAIN self._metrics \cap DOMAIN values # {}
         THEN [metrics |-> DictUpdate(values, self._metrics), raised |-> "RuntimeError"]
         ELSE Stored(DictUpdate(self._metrics, values))

\* MetricsContext.update
MetricsContext_update(self, values) ==
    IF self._level = 0 THEN Raised(self, "RuntimeError")
    ELSE IF DOMAIN self._metrics \cap DOMAIN values # {}
         THEN Raised(self, "RuntimeError")
         ELSE Stored(DictUpdate(self._metrics, values))

\* An update_outer that updates at every level.
MetricsContext_update_outer_everywhere(self, values) ==
    MetricsContext_update(self, values)

\* MetricsContext.update_outer
MetricsContext_update_outer(self, values) ==
    IF self._level = 0 THEN Raised(self, "RuntimeError")
    ELSE IF self._level = 1
         THEN MetricsContext_update(self, values)
         ELSE Stored(self._metrics)

\* MetricsContext.add_to_set; .add on an int or a dict raises AttributeError.
MetricsContext_add_to_set(self, metric, value) ==
    IF self._level = 0 THEN Raised(self, "RuntimeError")
    ELSE LET m == IF metric \notin DOMAIN self._metrics
                  THEN DictSet(self._metrics, metric, SetValue({}))
                  ELSE self._metrics
         IN IF m[metric].kind = "set"
            THEN Stored(DictSet(m, metric, SetValue(m[metric].elems \cup {value})))
            ELSE [metrics |-> m, raised |-> "AttributeError"]

\* with metrics_context: as the caller's code reaches it.
MetricsEnter ==
    /\ ~mlog.unmatched
    /\ Len(mlog.trace) < MaxTrace
    /\ mctx' = MetricsContext_enter(mctx, Len(mlog.trace) + 1)
    /\ mlog' = [mlog EXCEPT !.trace = Append(@, "enter"),
                            !.since = IF mctx._level = 0 THEN {} ELSE @,
                            !.payload = NoPayload,
                            !.op = NoMutatorCall]
    /\ UNCHANGED <<rctx, rlog, fstack>>
    /\ UNCHANGED exportVars

\* The end of a with block, or an __exit__ called with no block open: the
\* level goes down, the assert fails (or is compiled out) when it becomes
\* negative, and on_exit is called when it becomes 0.
MetricsExit(exc_type) ==
    /\ ~mlog.unmatched
    /\ Len(mlog.trace) < MaxTrace
    /\ LET self == MetricsContext_exit(mctx)
           now == Len(mlog.trace) + 1
       IN /\ mctx' = self
          /\ mlog' = [mlog EXCEPT
                 !.trace = Append(@, "exit"),
                 !.op = NoMutatorCall,
                 !.unmatched = self._level < 0,
                 !.on_exit = IF self._level = 0 THEN Append(@, now) ELSE @,
                 !.payload = IF self._level = 0
                             THEN Payload(self._start_time_ns, now, self._metrics,
                                          exc_type)
                             ELSE NoPayload]
    /\ UNCHANGED <<rctx, rlog, fstack>>
    /\ UNCHANGED exportVars

\* The metrics a call wrote: the names it created or gave another value.
Written(before, after) ==
    {m \in DOMAIN after : m \notin DOMAIN before \/ after[m] # before[m]}

\* A call of a mutator with its outcome.
Mutate(name, metric, values, overwrite, out) ==
    /\ ~mlog.unmatched
    /\ mctx' = [mctx EXCEPT !._metrics = out.metrics]
    /\ mlog' = [mlog EXCEPT
           !.op = Call(name, metric, values, overwrite, mctx._level,
                       mctx._metrics, out.raised),
           !.since = @ \cup {<<m, mctx._level > 1>> :
                                 m \in Written(mctx._metrics, out.metrics)}]
    /\ UNCHANGED <<rctx, rlog, fstack>>
    /\ UNCHANGED exportVars

\* The dicts callers pass to update and update_outer.
UpdateValues == {[m \in S |-> IntValue(1)] : S \in SUBSET MetricNames}

MetricsIncrement ==
    \E metric \in MetricNames :
        /\ metric \in DOMAIN mctx._metrics => mctx._metrics[metric].n < MaxCount
        /\ Mutate("increment", metric, EmptyDict, FALSE,
                  MetricsContext_increment(mctx, metric, 1))

MetricsSet ==
    \E metric \in MetricNames, overwrite \in BOOLEAN :
        Mutate("set", metric, DictSet(EmptyDict, metric, IntValue(0)), overwrite,
               MetricsContext_set(mctx, metric, IntValue(0), overwrite))

MetricsSetKeyValue ==
    \E metric \in MetricNames :
        Mutate("set_key_value", metric, EmptyDict, FALSE,
               MetricsContext_set_key_value(mctx, metric, "k", 1))

MetricsUpdate ==
    \E values \in UpdateValues :
        Mutate("update", None, values, FALSE, MetricsContext_update(mctx, values))

MetricsUpdateOuter ==
    \E values \in UpdateValues :
        Mutate("update_outer", None, values, FALSE,
               MetricsContext_update_outer(mctx, values))

MetricsAddToSet ==
    \E metric \in MetricNames :
        Mutate("add_to_set", metric, EmptyDict, FALSE,
               MetricsContext_add_to_set(mctx, metric, "x"))

NextMetrics ==
    \/ MetricsEnter
    \/ \E exc_type \in {None, "ValueError"} : MetricsExit(exc_type)
    \/ MetricsIncrement
    \/ MetricsSet
    \/ MetricsSetKeyValue
    \/ MetricsUpdate
    \/ MetricsUpdateOuter
    \/ MetricsAddToSet

SpecMetrics == InitElsewhere /\ [][NextMetrics]_vars

\* ------------------------------------------------ RuntimeMetricsContext

MaxCalls == 5

\* The extra arguments of increment: none (None or an empty dict), a value,
\* and a None value, under a key of their own.
Extras ==
    {EmptyDict, DictSet(EmptyDict, "co_name", IntValue(7)),
     DictSet(EmptyDict, "co_name", NoneValue)}

\* RuntimeMetricsContext.increment; now is what time.time_ns() returns.
RuntimeMetricsContext_increment(self, metric, value, extra, now) ==
    LET start == IF self._metrics = EmptyDict THEN now ELSE self._start_time_ns
        m0 == IF metric \notin DOMAIN self._metrics
              THEN DictSet(self._metrics, metric, IntValue(0))
              ELSE self._metrics
        m1 == DictSet(m0, metric, IntValue(m0[metric].n + value))
        new == {k \in DOMAIN extra : k \notin DOMAIN m1 /\ extra[k] # NoneValue}
        m2 == [k \in DOMAIN m1 \cup new |-> IF k \in new THEN extra[k] ELSE m1[k]]
    IN [_metrics |-> m2, _start_time_ns |-> start]

\* A finish that keeps the metrics it reported.
RuntimeMetricsContext_finish_keeps(self, on_exit_raises) == self

\* RuntimeMetricsContext.finish: what is left of the object.  on_exit is the
\* caller's function; when it raises, the statement after the call is not
\* reached.
RuntimeMetricsContext_finish(self, on_exit_raises) ==
    IF self._metrics # EmptyDict /\ ~on_exit_raises
    THEN [self EXCEPT !._metrics = EmptyDict]
    ELSE self

\* The count a metric holds, 0 when it is absent.
Held(metrics, m) == IF m \in DOMAIN metrics THEN metrics[m].n ELSE 0

\* A compiled function runs and counts.
RuntimeIncrement(metric, extra) ==
    /\ rlog.now < MaxCalls
    /\ rctx' = RuntimeMetricsContext_increment(rctx, metric, 1, extra, rlog.now + 1)
    /\ rlog' = [rlog EXCEPT !.now = @ + 1,
                            !.prev = rlog.op,
                            !.prev_raised = rlog.raised,
                            !.op = "increment",
                            !.raised = None,
                            !.before = rctx._metrics,
                            !.called_on_exit = FALSE,
                            !.payload = NoPayload,
                            !.incremented[metric] = @ + 1]
    /\ UNCHANGED <<mctx, mlog, fstack>>
    /\ UNCHANGED exportVars

\* finish(): on_exit is called when there are metrics, and they are dropped
\* once it has returned; its exception is that of finish().
RuntimeFinish(on_exit_raises) ==
    /\ rlog.now < MaxCalls
    /\ on_exit_raises => rctx._metrics # EmptyDict
    /\ rctx' = RuntimeMetricsContext_finish(rctx, on_exit_raises)
    /\ LET calls_on_exit == rctx._metrics # EmptyDict IN
       rlog' = [rlog EXCEPT
           !.now = @ + 1,
           !.prev = rlog.op,
           !.prev_raised = rlog.raised,
           !.op = "finish",
           !.raised = IF on_exit_raises THEN "Exception" ELSE None,
           !.before = rctx._metrics,
           !.called_on_exit = calls_on_exit,
           !.on_exit = IF calls_on_exit THEN @ + 1 ELSE @,
           !.payload = IF calls_on_exit
                       THEN Payload(rctx._start_time_ns, rlog.now + 1, rctx._metrics,
                                    None)
                       ELSE NoPayload,
           !.reported = [m \in MetricNames |->
                            IF calls_on_exit
                            THEN @[m] + Held(rctx._metrics, m)
                            ELSE @[m]],
           !.accepted = [m \in MetricNames |->
                            IF calls_on_exit /\ ~on_exit_raises
                            THEN @[m] + Held(rctx._metrics, m)
                            ELSE @[m]]]
    /\ UNCHANGED <<mctx, mlog, fstack>>
    /\ UNCHANGED exportVars

NextRuntime ==
    \/ \E metric \in MetricNames, extra \in Extras : RuntimeIncrement(metric, extra)
    \/ \E on_exit_raises \in BOOLEAN : RuntimeFinish(on_exit_raises)

SpecRuntime == InitElsewhere /\ [][NextRuntime]_vars

\* A frame in the filename table and outside the torch package.
IsUserFrame(s) ==
    /\ Str(s.filename) \in DOMAIN str_to_filename
    /\ ~TorchPathIn(str_to_filename[Str(s.filename)])

\* The positions in the argument of the frames of a sequence of frames.
Lines(frames) == [k \in 1..Len(frames) |-> frames[k].line]

\* C27: filter_stack returns a contiguous run of at most 3 frames: with a user
\* frame in the stack, the innermost user frame and the up to two frames
\* directly before it, whatever the length of the stack and the position of
\* that frame; without one, the last 3 frames (the whole stack if shorter).
C27_FilterStackRun ==
    fstack.called =>
        LET s == fstack.stack
            n == Len(s)
            U == {k \in 1..n : IsUserFrame(s[k])}
            u == CHOOSE k \in U : \A l \in U : l <= k
            From(k) == IF k > 3 THEN k - 2 ELSE 1
        IN IF U # {}
           THEN Lines(fstack.result) = [k \in 1..(u - From(u) + 1) |-> From(u) + k - 1]
           ELSE Lines(fstack.result) = [k \in 1..(n - From(n) + 1) |-> From(n) + k - 1]

\* The number of calls of a kind among the first p __enter__/__exit__ calls,
\* and the number of with blocks open after them.
CountOf(trace, what, p) == Cardinality({q \in 1..p : trace[q] = what})
Depth(trace, p) == CountOf(trace, "enter", p) - CountOf(trace, "exit", p)

\* Every __exit__ matches an earlier unmatched __enter__.
Matched(trace) == \A p \in 1..Len(trace) : Depth(trace, p) >= 0

\* C30: as long as every __exit__ matches an earlier unmatched __enter__, the
\* level is the number of __enter__ calls minus the number of __exit__ calls,
\* it is not negative (the assert holds), and in_progress() is true exactly
\* when that number is positive.
C30_LevelCountsOpenBlocks ==
    LET n == Len(mlog.trace) IN
    Matched(mlog.trace) =>
        /\ mctx._level = Depth(mlog.trace, n)
        /\ mctx._level >= 0
        /\ ~mlog.unmatched
        /\ MetricsContext_in_progress(mctx) <=> Depth(mlog.trace, n) > 0

\* Two nested blocks closed, a third one open.
C30_Witness ==
    /\ mlog.trace = <<"enter", "enter", "exit", "exit", "enter">>
    /\ mctx._level = 1
    /\ MetricsContext_in_progress(mctx)

\* The positions, in increasing order, of the calls of a set of positions.
RECURSIVE Sorted(_)
Sorted(P) ==
    IF P = {} THEN <<>>
    ELSE LET p == CHOOSE q \in P : \A r \in P : r <= q
         IN Append(Sorted(P \ {p}), p)

\* The __exit__ calls that close an outermost block.
OutermostExits(trace) ==
    {p \in 1..Len(trace) : trace[p] = "exit" /\ Depth(trace, p) = 0}

\* The __enter__ that opened the outermost block open before call p.
OutermostEnter(trace, p) ==
    CHOOSE q \in 1..p :
        /\ trace[q] = "enter"
        /\ Depth(trace, q) = 1
        /\ \A r \in (q + 1)..(p - 1) : Depth(trace, r) > 0

\* C21: on a properly nested sequence of __enter__/__exit__ calls, on_exit
\* has been called exactly once for each __exit__ that brought the level back
\* to 0 and for no other call; right after such an __exit__ it has received
\* the metrics dictionary, which holds every metric written since the
\* outermost __enter__, the ones written in nested blocks included, and the
\* times of that __enter__ and of this __exit__.
C21_OnExitOncePerOutermostBlock ==
    LET trace == mlog.trace
        n == Len(trace)
    IN Matched(trace) =>
          /\ mlog.on_exit = Sorted(OutermostExits(trace))
          /\ n \in OutermostExits(trace) =>
                /\ mlog.payload.metrics = mctx._metrics
                /\ \A w \in mlog.since : w[1] \in DOMAIN mlog.payload.metrics
                /\ mlog.payload.start_time_ns = OutermostEnter(trace, n)
                /\ mlog.payload.end_time_ns = n
          /\ n \notin OutermostExits(trace) => mlog.payload = NoPayload

\* A block with a nested block in it, one metric written in each: on_exit
\* was called at the fourth call only and received both metrics.
C21_Witness ==
    /\ mlog.trace = <<"enter", "enter", "exit", "exit">>
    /\ mlog.on_exit = <<4>>
    /\ mlog.since = {<<"a", FALSE>>, <<"b", TRUE>>}
    /\ DOMAIN mlog.payload.metrics = {"a", "b"}
    /\ mlog.payload.start_time_ns = 1
    /\ mlog.payload.end_time_ns = 4

\* The metrics are those before the call but for the given values at the
\* given names.
SetTo(before, values) ==
    /\ DOMAIN mctx._metrics = DOMAIN before \cup DOMAIN values
    /\ \A k \in DOMAIN values : mctx._metrics[k] = values[k]
    /\ \A k \in DOMAIN before \ DOMAIN values : mctx._metrics[k] = before[k]

\* C22: inside a context (level > 0, at any depth), set with overwrite=False
\* on a metric that is present, whichever mutator created it, raises
\* RuntimeError and leaves the metrics as they were; with overwrite=True, or
\* on an absent metric, it returns and the metric holds the given value, the
\* other metrics being as they were.
C22_SetRefusesPresentMetric ==
    LET op == mlog.op IN
    (op.name = "set" /\ op.level > 0) =>
        IF op.metric \in DOMAIN op.before /\ ~op.overwrite
        THEN op.raised = "RuntimeError" /\ mctx._metrics = op.before
        ELSE op.raised = None /\ SetTo(op.before, op.values)

\* In a nested block, set without overwrite met a metric add_to_set had
\* created and raised.
C22_Witness ==
    /\ mlog.op.name = "set"
    /\ mlog.op.level = 2
    /\ ~mlog.op.overwrite
    /\ mlog.op.metric \in DOMAIN mlog.op.before
    /\ mlog.op.before[mlog.op.metric].kind = "set"
    /\ mlog.op.raised = "RuntimeError"
    /\ mctx._metrics = mlog.op.before

\* C23: inside a context, update is all or nothing: when one of the given
\* keys is already present it raises RuntimeError and writes no key, not even
\* the absent ones; otherwise it returns and every given key holds the given
\* value, the other metrics being as they were.
C23_UpdateAllOrNothing ==
    LET op == mlog.op IN
    (op.name = "update" /\ op.level > 0) =>
        IF DOMAIN op.before \cap DOMAIN op.values # {}
        THEN op.raised = "RuntimeError" /\ mctx._metrics = op.before
        ELSE op.raised = None /\ SetTo(op.before, op.values)

\* update was given one key that was present and one that was not: it raised
\* and the absent key is still absent.
C23_Witness ==
    /\ mlog.op.name = "update"
    /\ mlog.op.level > 0
    /\ DOMAIN mlog.op.values = {"a", "b"}
    /\ DOMAIN mlog.op.before = {"a"}
    /\ mlog.op.raised = "RuntimeError"
    /\ DOMAIN mctx._metrics = {"a"}

\* C24: at level 0, before the first __enter__ or after the outermost
\* __exit__, each of increment, set, set_key_value, update, update_outer and
\* add_to_set raises RuntimeError and leaves the metrics dictionary as it was.
C24_MutatorsRaiseOutsideContext ==
    LET op == mlog.op IN
    (op.name # None /\ op.level = 0) =>
        /\ op.raised = "RuntimeError"
        /\ mctx._metrics = op.before

\* After the outermost __exit__ of a block that left metrics behind, a
\* mutator was called and raised.
C24_Witness ==
    /\ mlog.trace = <<"enter", "exit">>
    /\ mlog.op.name = "increment"
    /\ mlog.op.level = 0
    /\ mlog.op.metric \in DOMAIN mlog.op.before
    /\ mlog.op.raised = "RuntimeError"
    /\ mctx._metrics = mlog.op.before

\* C25: update_outer is update at level exactly 1; at a deeper level it
\* returns without raising and changes nothing, even when a given key is
\* already present.
C25_UpdateOuterOnlyAtLevelOne ==
    LET op == mlog.op IN
    (op.name = "update_outer" /\ op.level > 0) =>
        IF op.level = 1
        THEN IF DOMAIN op.before \cap DOMAIN op.values # {}
             THEN op.raised = "RuntimeError" /\ mctx._metrics = op.before
             ELSE op.raised = None /\ SetTo(op.before, op.values)
        ELSE op.raised = None /\ mctx._metrics = op.before

\* At level 2 update_outer was given a key already present and an absent one:
\* it returned and wrote neither.
C25_Witness ==
    /\ mlog.op.name = "update_outer"
    /\ mlog.op.level = 2
    /\ DOMAIN mlog.op.values = {"a", "b"}
    /\ DOMAIN mlog.op.before = {"a"}
    /\ mlog.op.raised = None
    /\ mctx._metrics = mlog.op.before

====
